---- MODULE Spec2Model ----
(***************************************************************************)
(* kopy: one-way directory synchronisation.                                *)
(*                                                                         *)
(* Spec      the executor: execute_plan and execute_plan_parallel          *)
(*           (src/src/executor/mod.rs), one run per behaviour.             *)
(* SpecPlan  DiffPlan::add_action / sort_by_path (src/src/diff/engine.rs). *)
(* SpecTree  FileTree::insert (src/src/types/tree.rs).                     *)
(* SpecCompare  compare_files (src/src/diff/compare.rs), one call.         *)
(* SpecSync  generate_sync_plan (src/src/diff/plan.rs), one call.          *)
(* SpecCopy  copy_file_atomic (src/src/executor/copy.rs), two calls.       *)
(* SpecTrash move_to_trash (src/src/executor/trash.rs), serial calls.      *)
(* SpecRun   run (src/src/commands/sync.rs), one call after the other.     *)
(* SpecScan  scan_directory_parallel (src/src/scanner/parallel.rs).        *)
(* SpecPool, SpecPoolFair  ParallelExecutor (src/src/executor/pool.rs).    *)
(***************************************************************************)
EXTENDS Integers, Sequences, FiniteSets, TLC

VARIABLES
    mode,        \* "seq": execute_plan, "par": execute_plan_parallel, "off": no run
    threads,     \* config.threads
    plan,        \* plan.actions
    idx,         \* the loop variable idx of `for (idx, action) in ...enumerate()`
    pc,          \* position of the calling thread
    events,      \* what the event sink has observed, in order
    stats,       \* ExecutionStats
    errors,      \* Vec<(Option<PathBuf>, KopyError)>
    in_flight,   \* Vec<JoinHandle<ParallelTransferResult>>, as plan indexes
    worker,      \* the spawned threads: plan index -> state of its thread
    joined,      \* plan indexes whose handle has been joined
    result,      \* the value the call returned
    actions,     \* DiffPlan.actions
    pstats,      \* DiffPlan.stats
    plan_op,     \* the last DiffPlan operation
    entries,     \* FileTree.entries
    total_size,  \* FileTree.total_size
    total_files, \* FileTree.total_files
    tree_op,     \* the last FileTree operation
    config,      \* the Config handed to the diff engine
    disk,        \* what compute_hash finds under config.source / config.destination
    cmp_src,     \* compare_files: the argument src
    cmp_dest,    \* compare_files: the argument dest
    cmp_action,  \* compare_files: the SyncAction returned
    src_tree,    \* generate_sync_plan: src_tree.entries
    dest_tree,   \* generate_sync_plan: dest_tree.entries
    COPY_TEMP_COUNTER, \* static COPY_TEMP_COUNTER: AtomicU64
    fs,          \* copy_file_atomic: the files of the destination directory
    fs_before,   \* copy_file_atomic: fs, as it was before any call
    calls,       \* copy_file_atomic: the calls in progress, one per thread
    clock,       \* move_to_trash: Local::now(), in seconds
    dest_items,  \* move_to_trash: what is under dest_root, by relative path
    trash,       \* move_to_trash: what is under dest_root/.kopy_trash
    tcall,       \* move_to_trash: the locals of the current or last call
    trash_log,   \* move_to_trash: the calls that returned Ok, in order
    next_item,   \* move_to_trash: how many items dest_root has held so far
    rfs,         \* run: the files and symlinks under each root, by relative path
    rfs_start,   \* run: rfs, as it was when the current call of run began
    run_state,   \* run: the position and the locals of the call of run
    scan_in,     \* scan_directory_parallel: the directory, root_path, config.threads
    walk,        \* scan_directory_parallel: the walker and its threads
    collected,   \* scan_directory_parallel: CollectedScan, behind its Mutex
    progress_state, \* scan_directory_parallel: ProgressState and who holds its Mutex
    cb_log,      \* scan_directory_parallel: the calls of on_progress, begun and ended
    scan_result, \* scan_directory_parallel: the value returned
    pool_cfg,    \* ParallelExecutor: workers and capacity, as new() fixed them
    chan,        \* ParallelExecutor: the upstream queue and the worker inboxes
    pool_stats,  \* ParallelExecutor: PoolStats, behind its Mutex
    tasks,       \* ParallelExecutor: the caller, the dispatcher and the workers
    pool_result  \* ParallelExecutor: what close_and_wait returned

execVars == <<mode, threads, plan, idx, pc, events, stats, errors, in_flight,
              worker, joined, result>>
planVars == <<actions, pstats, plan_op>>
treeVars == <<entries, total_size, total_files, tree_op>>
compareVars == <<cmp_src, cmp_dest, cmp_action>>
syncVars == <<src_tree, dest_tree>>
diffVars == <<config, disk, compareVars, syncVars>>
copyVars == <<COPY_TEMP_COUNTER, fs, fs_before, calls>>
trashVars == <<clock, dest_items, trash, tcall, trash_log, next_item>>
runVars == <<rfs, rfs_start, run_state>>
scanVars == <<scan_in, walk, collected, progress_state, cb_log, scan_result>>
poolVars == <<pool_cfg, chan, pool_stats, tasks, pool_result>>
parVars == <<scanVars, poolVars>>
ioVars == <<copyVars, trashVars, runVars, parVars>>
vars == <<execVars, planVars, treeVars, diffVars, ioVars>>

(***************************************************************************)
(* Bounds                                                                  *)
(***************************************************************************)
MaxSeqPlan == 4
MaxParPlan == 3
MaxThreads == 3
MaxPlanActions == 3
MaxFileSize == 2
MaxMtime == 1
MaxTreeEntries == 2

(***************************************************************************)
(* Data model                                                              *)
(***************************************************************************)
LARGE_TRANSFER_THRESHOLD_BYTES == 16 * 1024 * 1024

Min(a, b) == IF a < b THEN a ELSE b
Max(a, b) == IF a > b THEN a ELSE b

\* Relative paths are sequences of components.
NoPath == <<>>

FileEntry(path, size) == [path |-> path, size |-> size, is_symlink |-> FALSE]

CopyNew(entry) == [kind |-> "CopyNew", entry |-> entry]
Overwrite(entry) == [kind |-> "Overwrite", entry |-> entry]
Delete(path) == [kind |-> "Delete", path |-> path]
Move(from, to) == [kind |-> "Move", from |-> from, to |-> to]
Skip == [kind |-> "Skip"]

requires_transfer(action) == action.kind \in {"CopyNew", "Overwrite"}

ActionPath(action) ==
    CASE action.kind \in {"CopyNew", "Overwrite"} -> action.entry.path
      [] action.kind = "Delete" -> action.path
      [] action.kind = "Move" -> action.to
      [] action.kind = "Skip" -> NoPath

action_name(action) ==
    CASE action.kind = "CopyNew" -> "Copy"
      [] action.kind = "Overwrite" -> "Update"
      [] action.kind = "Delete" -> "Delete"
      [] action.kind = "Move" -> "Move"
      [] action.kind = "Skip" -> "Skip"

\* is_small_parallel_transfer without the size test.
is_small_parallel_transfer_any_size(action) == requires_transfer(action)

\* is_small_parallel_transfer that takes a Delete for a small transfer.
is_small_parallel_transfer_or_delete(action) ==
    IF action.kind = "Delete"
    THEN TRUE
    ELSE IF ~requires_transfer(action)
    THEN FALSE
    ELSE action.entry.size <= LARGE_TRANSFER_THRESHOLD_BYTES

is_small_parallel_transfer(action) ==
    IF ~requires_transfer(action)
    THEN FALSE
    ELSE action.entry.size <= LARGE_TRANSFER_THRESHOLD_BYTES

(***************************************************************************)
(* Executor: events, results, statistics                                   *)
(***************************************************************************)
Ok(bytes) == [ok |-> TRUE, bytes |-> bytes, error |-> "none"]
Err(error) == [ok |-> FALSE, bytes |-> 0, error |-> error]

\* The results execute_action can return for an action.  A transfer copies
\* the entry's bytes (a symlink counts 0 bytes) or fails on the filesystem;
\* a delete returns 0 bytes or fails; Skip always succeeds; Move is rejected.
execute_action(action) ==
    CASE requires_transfer(action) ->
            {Ok(IF action.entry.is_symlink THEN 0 ELSE action.entry.size), Err("Io")}
      [] action.kind = "Delete" -> {Ok(0), Err("Io")}
      [] action.kind = "Skip" -> {Ok(0)}
      [] action.kind = "Move" -> {Err("Validation")}

\* ActionStart carrying the 0-based idx instead of idx + 1.
ActionStartZeroBased(index, total, action) ==
    [type |-> "ActionStart", index |-> index - 1, total |-> total,
     action |-> action_name(action), path |-> ActionPath(action)]

ActionStart(index, total, action) ==
    [type |-> "ActionStart", index |-> index, total |-> total,
     action |-> action_name(action), path |-> ActionPath(action)]

ActionSuccess(index, total, action, bytes) ==
    [type |-> "ActionSuccess", index |-> index, total |-> total,
     action |-> action_name(action), path |-> ActionPath(action),
     bytes_copied |-> bytes]

ActionError(index, total, action, error) ==
    [type |-> "ActionError", index |-> index, total |-> total,
     action |-> action_name(action), path |-> ActionPath(action),
     error |-> error]

Complete(st) == [type |-> "Complete", stats |-> st]

NewStats(total) ==
    [total_actions |-> total, completed_actions |-> 0,
     failed_actions |-> 0, bytes_copied |-> 0]

\* The Ok arm without `stats.bytes_copied += bytes`.
StatsAfterDroppingBytes(st, r) ==
    IF r.ok
    THEN [st EXCEPT !.completed_actions = @ + 1]
    ELSE [st EXCEPT !.failed_actions = @ + 1]

\* The Ok / Err arms shared by execute_plan, execute_action_with_events and
\* apply_parallel_result.
StatsAfter(st, r) ==
    IF r.ok
    THEN [st EXCEPT !.completed_actions = @ + 1, !.bytes_copied = @ + r.bytes]
    ELSE [st EXCEPT !.failed_actions = @ + 1]

TerminalEvent(index, total, action, r) ==
    IF r.ok
    THEN ActionSuccess(index, total, action, r.bytes)
    ELSE ActionError(index, total, action, r.error)

ErrorsAfter(errs, action, r) ==
    IF r.ok THEN errs ELSE Append(errs, <<ActionPath(action), r.error>>)

Take(s, n) == SubSeq(s, 1, Min(n, Len(s)))

\* build_error_summary without .take(3): every failure is previewed.
build_error_summary_untruncated(errs) ==
    [text |-> "Sync completed with error(s)",
     count |-> Len(errs), preview |-> errs]

\* "Sync completed with {} error(s). Example failures: {}"
build_error_summary(errs) ==
    [text |-> "Sync completed with error(s)",
     count |-> Len(errs), preview |-> Take(errs, 3)]

PanicMessage == "parallel worker thread panicked"

ReturnOk(st) == [tag |-> "Ok", stats |-> st]
ReturnValidation(msg) == [tag |-> "Err", kind |-> "Validation", msg |-> msg]
ReturnPanic ==
    ReturnValidation([text |-> PanicMessage, count |-> 0, preview |-> <<>>])
Running == [tag |-> "Running"]

\* The tail of both executors: Ok(stats) or Err(Validation(summary)).
FinalResult(st, errs) ==
    IF errs = <<>>
    THEN ReturnOk(st)
    ELSE ReturnValidation(build_error_summary(errs))

worker_count == Max(threads, 1)

(***************************************************************************)
(* Executor: inputs                                                        *)
(***************************************************************************)
SeqsUpTo(S, n) == UNION {[1..k -> S] : k \in 0..n}

\* Entries on both sides of the small-transfer threshold.
SmallEntry == FileEntry(<<1>>, LARGE_TRANSFER_THRESHOLD_BYTES)
LargeEntry == FileEntry(<<1>>, LARGE_TRANSFER_THRESHOLD_BYTES + 1)
\* A symlink: size is the length of the link itself.
SymlinkEntry == [FileEntry(<<1>>, 1) EXCEPT !.is_symlink = TRUE]

\* The plans the executor is run on: every variant of SyncAction, with a
\* transfer on each side of the threshold and the copy of a symlink.
ExecActions ==
    {CopyNew(SmallEntry), Overwrite(LargeEntry), CopyNew(SymlinkEntry),
     Delete(<<1>>), Move(<<1>>, <<2>>), Skip}

Total == Len(plan)
Index == idx + 1
Current == plan[Index]

NoWorker == <<"none">>
WorkerRunning == <<"running">>
WorkerFinished(r) == <<"finished", r>>
WorkerPanicked == <<"panicked">>

InitExec ==
    /\ \/ /\ mode = "seq"
          /\ threads = 1
          /\ plan \in SeqsUpTo(ExecActions, MaxSeqPlan)
       \/ /\ mode = "par"
          /\ threads \in 0..MaxThreads
          /\ plan \in SeqsUpTo(ExecActions, MaxParPlan)
    /\ idx = 0
    /\ pc = "loop"
    /\ events = <<>>
    /\ stats = NewStats(Len(plan))
    /\ errors = <<>>
    /\ in_flight = <<>>
    /\ worker = [i \in 1..Len(plan) |-> NoWorker]
    /\ joined = {}
    /\ result = Running

IdleExec ==
    /\ mode = "off"
    /\ threads = 1
    /\ plan = <<>>
    /\ idx = 0
    /\ pc = "done"
    /\ events = <<>>
    /\ stats = NewStats(0)
    /\ errors = <<>>
    /\ in_flight = <<>>
    /\ worker = <<>>
    /\ joined = {}
    /\ result = Running

(***************************************************************************)
(* execute_plan                                                            *)
(***************************************************************************)
SeqStart ==
    /\ mode = "seq" /\ pc = "loop" /\ idx < Total
    /\ events' = Append(events, ActionStart(Index, stats.total_actions, Current))
    /\ pc' = "exec"
    /\ UNCHANGED <<planVars, treeVars, diffVars, ioVars, mode, threads, plan, idx, stats, errors, in_flight, worker,
                   joined, result>>

\* execute_plan whose Err arm emits no ActionError event.
SeqExecSilentError ==
    /\ mode = "seq" /\ pc = "exec"
    /\ \E r \in execute_action(Current) :
        /\ stats' = StatsAfter(stats, r)
        /\ events' = IF r.ok
                     THEN Append(events, TerminalEvent(Index, stats.total_actions,
                                                       Current, r))
                     ELSE events
        /\ errors' = ErrorsAfter(errors, Current, r)
    /\ idx' = idx + 1
    /\ pc' = "loop"
    /\ UNCHANGED <<planVars, treeVars, diffVars, ioVars, mode, threads, plan, in_flight, worker,
                   joined, result>>

SeqExec ==
    /\ mode = "seq" /\ pc = "exec"
    /\ \E r \in execute_action(Current) :
        /\ stats' = StatsAfter(stats, r)
        /\ events' = Append(events,
                            TerminalEvent(Index, stats.total_actions, Current, r))
        /\ errors' = ErrorsAfter(errors, Current, r)
    /\ idx' = idx + 1
    /\ pc' = "loop"
    /\ UNCHANGED <<planVars, treeVars, diffVars, ioVars, mode, threads, plan, in_flight, worker, joined, result>>

SeqComplete ==
    /\ mode = "seq" /\ pc = "loop" /\ idx = Total
    /\ events' = Append(events, Complete(stats))
    /\ result' = FinalResult(stats, errors)
    /\ pc' = "done"
    /\ UNCHANGED <<planVars, treeVars, diffVars, ioVars, mode, threads, plan, idx, stats, errors, in_flight, worker,
                   joined>>

(***************************************************************************)
(* execute_plan_parallel                                                   *)
(***************************************************************************)
\* A spawned worker thread runs execute_action on its clone of the action and
\* returns the result, or panics.
WorkerFinish(i) ==
    /\ mode = "par"
    /\ worker[i] = WorkerRunning
    /\ \/ \E r \in execute_action(plan[i]) :
            worker' = [worker EXCEPT ![i] = WorkerFinished(r)]
       \/ worker' = [worker EXCEPT ![i] = WorkerPanicked]
    /\ UNCHANGED <<planVars, treeVars, diffVars, ioVars, mode, threads, plan, idx, pc, events, stats, errors,
                   in_flight, joined, result>>

\* apply_parallel_result whose Err arm does not push to errors.
ApplyParallelResultForgettingErrors(h, r) ==
    /\ stats' = StatsAfter(stats, r)
    /\ events' = Append(events, TerminalEvent(h, Total, plan[h], r))
    /\ errors' = errors

\* apply_parallel_result
ApplyParallelResult(h, r) ==
    /\ stats' = StatsAfter(stats, r)
    /\ events' = Append(events, TerminalEvent(h, Total, plan[h], r))
    /\ errors' = ErrorsAfter(errors, plan[h], r)

\* A join that drops a panicked worker's Err instead of returning it.
JoinSwallowingPanic(h, nextPc, nextIdx) ==
    /\ worker[h] # WorkerRunning
    /\ joined' = joined \cup {h}
    /\ IF worker[h] = WorkerPanicked
       THEN UNCHANGED <<stats, events, errors>>
       ELSE ApplyParallelResult(h, worker[h][2])
    /\ pc' = nextPc
    /\ idx' = nextIdx
    /\ UNCHANGED result

\* handle.join().map_err(..)? followed by apply_parallel_result: blocks until
\* the thread has ended; a panic returns from the whole call.
Join(h, nextPc, nextIdx) ==
    /\ worker[h] # WorkerRunning
    /\ joined' = joined \cup {h}
    /\ IF worker[h] = WorkerPanicked
       THEN /\ result' = ReturnPanic
            /\ pc' = "done"
            /\ UNCHANGED <<idx, stats, events, errors>>
       ELSE /\ ApplyParallelResult(h, worker[h][2])
            /\ pc' = nextPc
            /\ idx' = nextIdx
            /\ UNCHANGED result

\* if in_flight.len() > worker_count
NeedJoinStrict(len) == len > worker_count

\* if in_flight.len() >= worker_count
NeedJoin(len) == len >= worker_count

ParSpawn ==
    /\ mode = "par" /\ pc = "loop" /\ idx < Total
    /\ is_small_parallel_transfer(Current)
    /\ events' = Append(events, ActionStart(Index, Total, Current))
    /\ worker' = [worker EXCEPT ![Index] = WorkerRunning]
    /\ in_flight' = Append(in_flight, Index)
    /\ IF NeedJoin(Len(in_flight) + 1)
       THEN pc' = "join_first" /\ idx' = idx
       ELSE pc' = "loop" /\ idx' = idx + 1
    /\ UNCHANGED <<planVars, treeVars, diffVars, ioVars, mode, threads, plan, stats, errors, joined, result>>

\* let handle = in_flight.remove(0); join; apply; continue
ParJoinFirst ==
    /\ mode = "par" /\ pc = "join_first"
    /\ in_flight' = Tail(in_flight)
    /\ Join(Head(in_flight), "loop", idx + 1)
    /\ UNCHANGED <<planVars, treeVars, diffVars, ioVars, mode, threads, plan, worker>>

\* One iteration of drain_parallel_handles: while let Some(handle) = pop()
DrainStep ==
    /\ in_flight # <<>>
    /\ in_flight' = SubSeq(in_flight, 1, Len(in_flight) - 1)
    /\ Join(in_flight[Len(in_flight)], pc, idx)
    /\ UNCHANGED <<planVars, treeVars, diffVars, ioVars, mode, threads, plan, worker>>

\* The barrier action run without draining first.
NotDrained == TRUE

\* drain_parallel_handles has returned Ok(()): nothing is in flight.
Drained == in_flight = <<>>

ParDrainBarrier ==
    /\ mode = "par" /\ pc = "loop" /\ idx < Total
    /\ ~is_small_parallel_transfer(Current)
    /\ DrainStep

\* execute_action_with_events, first half: the ActionStart event.
ParBarrierStart ==
    /\ mode = "par" /\ pc = "loop" /\ idx < Total
    /\ ~is_small_parallel_transfer(Current)
    /\ Drained
    /\ events' = Append(events, ActionStart(Index, Total, Current))
    /\ pc' = "barrier"
    /\ UNCHANGED <<planVars, treeVars, diffVars, ioVars, mode, threads, plan, idx, stats, errors, in_flight, worker,
                   joined, result>>

\* execute_action_with_events, second half: the action on the calling thread.
ParBarrierExec ==
    /\ mode = "par" /\ pc = "barrier"
    /\ \E r \in execute_action(Current) :
        /\ stats' = StatsAfter(stats, r)
        /\ events' = Append(events, TerminalEvent(Index, Total, Current, r))
        /\ errors' = ErrorsAfter(errors, Current, r)
    /\ idx' = idx + 1
    /\ pc' = "loop"
    /\ UNCHANGED <<planVars, treeVars, diffVars, ioVars, mode, threads, plan, in_flight, worker, joined, result>>

ParDrainFinal ==
    /\ mode = "par" /\ pc = "loop" /\ idx = Total
    /\ DrainStep

\* Complete emitted without the final drain.
NotFinalDrained == TRUE

\* The final drain has returned Ok(()).
FinalDrained == in_flight = <<>>

ParComplete ==
    /\ mode = "par" /\ pc = "loop" /\ idx = Total
    /\ FinalDrained
    /\ events' = Append(events, Complete(stats))
    /\ result' = FinalResult(stats, errors)
    /\ pc' = "done"
    /\ UNCHANGED <<planVars, treeVars, diffVars, ioVars, mode, threads, plan, idx, stats, errors, in_flight, worker,
                   joined>>

(***************************************************************************)
(* DiffPlan                                                                *)
(***************************************************************************)
NewPlanStats ==
    [total_files |-> 0, total_bytes |-> 0, copy_count |-> 0,
     overwrite_count |-> 0, delete_count |-> 0, skip_count |-> 0]

PlanPaths == {<<1>>, <<2>>}
PlanEntries == {FileEntry(p, n) : p \in PlanPaths, n \in 0..MaxFileSize}

PlanActions ==
    {CopyNew(e) : e \in PlanEntries} \cup {Overwrite(e) : e \in PlanEntries}
        \cup {Delete(p) : p \in PlanPaths} \cup {Move(<<1>>, <<2>>), Skip}

\* add_action whose Overwrite arm was copied from the CopyNew arm unchanged.
PlanStatsAfterCopiedArm(st, action) ==
    CASE action.kind \in {"CopyNew", "Overwrite"} ->
            [st EXCEPT !.copy_count = @ + 1, !.total_files = @ + 1,
                       !.total_bytes = @ + action.entry.size]
      [] action.kind = "Delete" -> [st EXCEPT !.delete_count = @ + 1]
      [] action.kind = "Skip" -> [st EXCEPT !.skip_count = @ + 1]
      [] action.kind = "Move" -> st

\* The match of add_action.
PlanStatsAfter(st, action) ==
    CASE action.kind = "CopyNew" ->
            [st EXCEPT !.copy_count = @ + 1, !.total_files = @ + 1,
                       !.total_bytes = @ + action.entry.size]
      [] action.kind = "Overwrite" ->
            [st EXCEPT !.overwrite_count = @ + 1, !.total_files = @ + 1,
                       !.total_bytes = @ + action.entry.size]
      [] action.kind = "Delete" -> [st EXCEPT !.delete_count = @ + 1]
      [] action.kind = "Skip" -> [st EXCEPT !.skip_count = @ + 1]
      [] action.kind = "Move" -> st

\* Ord for PathBuf: component by component; -1 less, 0 equal, 1 greater.
RECURSIVE PathCmp(_, _)
PathCmp(a, b) ==
    IF a = <<>> /\ b = <<>> THEN 0
    ELSE IF a = <<>> THEN -1
    ELSE IF b = <<>> THEN 1
    ELSE IF Head(a) < Head(b) THEN -1
    ELSE IF Head(a) > Head(b) THEN 1
    ELSE PathCmp(Tail(a), Tail(b))

\* SyncAction::path() is None for Skip alone.
HasPath(action) == action.kind # "Skip"

\* The comparator of sort_by_path.
ActionCmp(a, b) ==
    CASE HasPath(a) /\ HasPath(b) -> PathCmp(ActionPath(a), ActionPath(b))
      [] HasPath(a) /\ ~HasPath(b) -> -1
      [] ~HasPath(a) /\ HasPath(b) -> 1
      [] ~HasPath(a) /\ ~HasPath(b) -> 0

\* A sort that leaves every element where it was pushed.
InsertAtEnd(s, a) == Append(s, a)

\* Vec::sort_by is a stable sort: an element goes behind everything that
\* does not compare greater.
InsertStable(s, a) ==
    LET k == Cardinality({i \in DOMAIN s : ActionCmp(s[i], a) <= 0})
    IN SubSeq(s, 1, k) \o <<a>> \o SubSeq(s, k + 1, Len(s))

RECURSIVE SortedByPath(_)
SortedByPath(s) ==
    IF s = <<>>
    THEN <<>>
    ELSE InsertStable(SortedByPath(SubSeq(s, 1, Len(s) - 1)), s[Len(s)])

(***************************************************************************)
(* Diff engine: entries, configuration, hashing                            *)
(***************************************************************************)
\* Option<[u8; 32]>: None is NoHash, Some(h) is a digest h of Hashes.
NoHash == 0
Hashes == {1, 2}

\* FileEntry::new; permissions play no part in the diff.
FileEntry_new(path, size, mtime) ==
    [path |-> path, size |-> size, mtime |-> mtime, hash |-> NoHash,
     is_symlink |-> FALSE, symlink_target |-> NoPath]

\* FileEntry::new_symlink.
FileEntry_new_symlink(path, size, mtime, target) ==
    [path |-> path, size |-> size, mtime |-> mtime, hash |-> NoHash,
     is_symlink |-> TRUE, symlink_target |-> target]

with_hash(entry, hash) == [entry EXCEPT !.hash = hash]

DeleteModes == {"None", "Trash", "Permanent"}

\* Config, as far as the diff engine reads it.
NewConfig(delete_mode, checksum_mode) ==
    [source |-> "src", destination |-> "dest",
     delete_mode |-> delete_mode, checksum_mode |-> checksum_mode]

\* Result<[u8; 32], KopyError> of compute_hash.
HashOk(hash) == [ok |-> TRUE, hash |-> hash]
HashErr == [ok |-> FALSE, hash |-> NoHash]
HashResults == {HashErr} \cup {HashOk(h) : h \in Hashes}

\* PathBuf::join of a root and a relative path.
join(root, path) == [root |-> root, path |-> path]

\* compute_hash whose read errors come out as the digest of an empty file.
compute_hash_hiding_errors(file_path) ==
    IF disk[file_path.root][file_path.path].ok
    THEN disk[file_path.root][file_path.path]
    ELSE HashOk(1)

\* compute_hash: the digest of the file's bytes, or the I/O error of opening
\* or reading it.
compute_hash(file_path) == disk[file_path.root][file_path.path]

NoEntry == FileEntry_new(NoPath, 0, 0)
NoAction == [kind |-> "none"]
NoDisk == [src |-> <<>>, dest |-> <<>>]

IdleCopy == COPY_TEMP_COUNTER = 0 /\ fs = <<>> /\ fs_before = <<>> /\ calls = <<>>
NoCall ==
    [pc |-> "off", calls |-> 0, failures |-> 0, relative_path |-> NoPath,
     timestamp |-> 0, trash_relative_path |-> NoPath, target |-> NoPath,
     file_size |-> 0, crossed |-> FALSE, moved |-> FALSE, manifest |-> <<>>,
     result |-> [kind |-> "none"]]
IdleTrash ==
    /\ clock = 0 /\ dest_items = <<>> /\ trash = <<>> /\ tcall = NoCall
    /\ trash_log = <<>> /\ next_item = 0
NoRun == [pc |-> "off"]
NoFs == [src |-> <<>>, dest |-> <<>>]
IdleRun == rfs = NoFs /\ rfs_start = NoFs /\ run_state = NoRun
IdleScan ==
    /\ scan_in = <<>> /\ walk = <<>> /\ collected = <<>>
    /\ progress_state = <<>> /\ cb_log = <<>> /\ scan_result = <<>>
IdlePool ==
    /\ pool_cfg = <<>> /\ chan = <<>> /\ pool_stats = <<>>
    /\ tasks = <<>> /\ pool_result = <<>>
IdlePar == IdleScan /\ IdlePool
IdleIo == IdleCopy /\ IdleTrash /\ IdleRun /\ IdlePar

IdleDiff ==
    /\ config = NewConfig("None", FALSE)
    /\ disk = NoDisk
    /\ cmp_src = NoEntry /\ cmp_dest = NoEntry /\ cmp_action = NoAction
    /\ src_tree = <<>> /\ dest_tree = <<>>

IdlePlan == actions = <<>> /\ pstats = NewPlanStats /\ plan_op = "off"
IdleTree == entries = <<>> /\ total_size = 0 /\ total_files = 0 /\ tree_op = "off"

InitPlan == actions = <<>> /\ pstats = NewPlanStats /\ plan_op = "new"

add_action(action) ==
    /\ Len(actions) < MaxPlanActions
    /\ pstats' = PlanStatsAfter(pstats, action)
    /\ actions' = Append(actions, action)
    /\ plan_op' = "add"
    /\ UNCHANGED <<execVars, treeVars, diffVars, ioVars>>

sort_by_path ==
    /\ actions' = SortedByPath(actions)
    /\ plan_op' = "sort"
    /\ UNCHANGED <<pstats, execVars, treeVars, diffVars, ioVars>>

NextPlan ==
    \/ \E a \in PlanActions : add_action(a)
    \/ sort_by_path

InitSpecPlan == IdleExec /\ InitPlan /\ IdleTree /\ IdleDiff /\ IdleIo

SpecPlan == InitSpecPlan /\ [][NextPlan]_vars

(***************************************************************************)
(* FileTree                                                                *)
(***************************************************************************)
TreePaths == {<<1>>, <<2>>, <<1, 2>>}

SaturatingSub(a, b) == IF a >= b THEN a - b ELSE 0

\* insert that forgets the entry it replaces.
TotalsAfterBlindInsert(size, files, replaced, entry) ==
    [total_size |-> size + entry.size, total_files |-> files + 1]

\* The arithmetic of insert; `replaced` holds the old entry, if any.
TotalsAfterInsert(size, files, replaced, entry) ==
    LET size1 == IF replaced = {} THEN size
                 ELSE SaturatingSub(size, (CHOOSE e \in replaced : TRUE).size)
        files1 == IF replaced = {} THEN files ELSE SaturatingSub(files, 1)
    IN [total_size |-> size1 + entry.size, total_files |-> files1 + 1]

InitTree ==
    /\ entries = <<>>
    /\ total_size = 0
    /\ total_files = 0
    /\ tree_op = "new"

insert(path, entry) ==
    LET replaced == IF path \in DOMAIN entries THEN {entries[path]} ELSE {}
        totals == TotalsAfterInsert(total_size, total_files, replaced, entry)
    IN /\ total_size' = totals.total_size
       /\ total_files' = totals.total_files
       /\ entries' = [p \in DOMAIN entries \cup {path} |->
                        IF p = path THEN entry ELSE entries[p]]
       /\ tree_op' = IF replaced = {} THEN "insert"
                     ELSE IF entries[path].size = entry.size THEN "replace"
                     ELSE "resize"
       /\ UNCHANGED <<execVars, planVars, diffVars, ioVars>>

NextTree ==
    \E path \in TreePaths : \E n \in 0..MaxFileSize :
        insert(path, FileEntry(path, n))

InitSpecTree == IdleExec /\ IdlePlan /\ InitTree /\ IdleDiff /\ IdleIo

SpecTree == InitSpecTree /\ [][NextTree]_vars


(***************************************************************************)
(* compare_files                                                           *)
(***************************************************************************)
\* compare_files whose mtime test lets an equal mtime through.
compare_files_mtime_not_strict(src, dest, cfg) ==
    IF src.size # dest.size
    THEN Overwrite(src)
    ELSE IF cfg.checksum_mode
    THEN LET src_hash == IF src.hash # NoHash THEN HashOk(src.hash)
                         ELSE compute_hash(join(cfg.source, src.path))
             dest_hash == IF dest.hash # NoHash THEN HashOk(dest.hash)
                          ELSE compute_hash(join(cfg.destination, dest.path))
         IN IF ~src_hash.ok THEN Overwrite(src)
            ELSE IF ~dest_hash.ok THEN Overwrite(src)
            ELSE IF src_hash.hash # dest_hash.hash THEN Overwrite(src)
            ELSE Skip
    ELSE IF src.mtime >= dest.mtime THEN Overwrite(src) ELSE Skip

\* The cascade of compare_files: size, then (checksum mode) the digests,
\* cached on the entry or computed from the file, else the mtimes.  The
\* entries' is_symlink and symlink_target are not read.
compare_files(src, dest, cfg) ==
    IF src.size # dest.size
    THEN Overwrite(src)
    ELSE IF cfg.checksum_mode
    THEN LET src_hash == IF src.hash # NoHash THEN HashOk(src.hash)
                         ELSE compute_hash(join(cfg.source, src.path))
             dest_hash == IF dest.hash # NoHash THEN HashOk(dest.hash)
                          ELSE compute_hash(join(cfg.destination, dest.path))
         IN IF ~src_hash.ok THEN Overwrite(src)
            ELSE IF ~dest_hash.ok THEN Overwrite(src)
            ELSE IF src_hash.hash # dest_hash.hash THEN Overwrite(src)
            ELSE Skip
    ELSE IF src.mtime > dest.mtime THEN Overwrite(src) ELSE Skip

ComparePath == <<1>>
SymlinkTargets == {<<1>>, <<2>>}

\* The entries compare_files is called with: regular files and symlinks of
\* every size and mtime, with or without a cached digest.
CompareEntries ==
    LET fresh ==
            {FileEntry_new(ComparePath, n, t) :
                n \in 0..MaxFileSize, t \in 0..MaxMtime}
            \cup {FileEntry_new_symlink(ComparePath, n, t, target) :
                    n \in 0..MaxFileSize, t \in 0..MaxMtime,
                    target \in SymlinkTargets}
    IN fresh \cup {with_hash(e, h) : e \in fresh, h \in Hashes}

IdleExecPlanTree == IdleExec /\ IdlePlan /\ IdleTree

InitSpecCompare ==
    /\ IdleExecPlanTree
    /\ IdleIo
    /\ config \in {NewConfig("None", b) : b \in BOOLEAN}
    /\ disk \in [src : [{ComparePath} -> HashResults],
                  dest : [{ComparePath} -> HashResults]]
    /\ cmp_src \in CompareEntries
    /\ cmp_dest \in CompareEntries
    /\ cmp_action = NoAction
    /\ src_tree = <<>> /\ dest_tree = <<>>

CompareFiles ==
    /\ cmp_action = NoAction
    /\ cmp_action' = compare_files(cmp_src, cmp_dest, config)
    /\ UNCHANGED <<execVars, planVars, treeVars, ioVars, config, disk, cmp_src,
                   cmp_dest, syncVars>>

NextCompare == CompareFiles

SpecCompare == InitSpecCompare /\ [][NextCompare]_vars

(***************************************************************************)
(* generate_sync_plan                                                      *)
(***************************************************************************)
\* Path::ancestors: the path, its parent, ..., the empty path.
ancestors(path) ==
    [i \in 1..(Len(path) + 1) |-> SubSeq(path, 1, Len(path) + 1 - i)]

\* ancestors().skip(1)
skip1(s) == Tail(s)

build_dest_parent_prefixes(tree) ==
    UNION {{skip1(ancestors(dest_path))[i] :
                i \in {j \in DOMAIN skip1(ancestors(dest_path)) :
                            skip1(ancestors(dest_path))[j] # <<>>}} :
            dest_path \in DOMAIN tree}

conflict_delete_roots(src_path, tree, dest_parent_prefixes) ==
    LET anc == skip1(ancestors(src_path))
        hits == {i \in DOMAIN anc : anc[i] # <<>> /\ anc[i] \in DOMAIN tree}
        nearest == CHOOSE i \in hits : \A j \in hits : i <= j
    IN (IF hits = {} THEN <<>> ELSE <<anc[nearest]>>)
        \o (IF src_path \in dest_parent_prefixes THEN <<src_path>> ELSE <<>>)

\* is_covered_by_planned_delete that answers yes for every path.
is_covered_by_any(path, planned_deletes) == TRUE

is_covered_by_planned_delete(path, planned_deletes) ==
    \E i \in DOMAIN ancestors(path) :
        ancestors(path)[i] # <<>> /\ ancestors(path)[i] \in planned_deletes

\* config.delete_mode != DeleteMode::None, with the test left out.
allow_deletes_always == TRUE

allow_deletes == config.delete_mode # "None"

\* The locals of generate_sync_plan: plan and planned_deletes.
NewSyncState ==
    [actions |-> <<>>, stats |-> NewPlanStats, planned_deletes |-> {}]

\* plan.add_action(action)
PlanAdd(st, action) ==
    [st EXCEPT !.actions = Append(@, action),
               !.stats = PlanStatsAfter(@, action)]

\* The conflict delete planned without asking planned_deletes.
PlanConflictDeleteAgain(st, conflict_path) ==
    [PlanAdd(st, Delete(conflict_path)) EXCEPT
        !.planned_deletes = @ \cup {conflict_path}]

\* if planned_deletes.insert(conflict_path) { plan.add_action(Delete(..)) }
PlanConflictDelete(st, conflict_path) ==
    IF conflict_path \notin st.planned_deletes
    THEN [PlanAdd(st, Delete(conflict_path)) EXCEPT
            !.planned_deletes = @ \cup {conflict_path}]
    ELSE st

\* for conflict_path in conflict_delete_roots(..)
RECURSIVE AddConflictDeletes(_, _)
AddConflictDeletes(st, roots) ==
    IF roots = <<>>
    THEN st
    ELSE AddConflictDeletes(PlanConflictDelete(st, Head(roots)), Tail(roots))

\* What the body of the first loop appends for a source path.
SrcAction(path) ==
    IF path \notin DOMAIN dest_tree
    THEN CopyNew(src_tree[path])
    ELSE LET action == compare_files(src_tree[path], dest_tree[path], config)
         IN IF action # Skip THEN action ELSE Skip

\* The body of the first loop with the transfer planned ahead of the
\* conflict deletes.
SrcStepCopyFirst(st, path) ==
    LET st1 == PlanAdd(st, SrcAction(path))
    IN IF allow_deletes
       THEN AddConflictDeletes(st1,
                conflict_delete_roots(path, dest_tree,
                                      build_dest_parent_prefixes(dest_tree)))
       ELSE st1

\* The body of the first loop that records no Skip.
SrcStepDroppingSkip(st, path) ==
    LET st1 == IF allow_deletes
               THEN AddConflictDeletes(st,
                        conflict_delete_roots(path, dest_tree,
                                              build_dest_parent_prefixes(dest_tree)))
               ELSE st
    IN IF SrcAction(path) = Skip THEN st1 ELSE PlanAdd(st1, SrcAction(path))

\* The body of `for (path, src_entry) in src_tree.iter()`.
SrcStep(st, path) ==
    LET st1 == IF allow_deletes
               THEN AddConflictDeletes(st,
                        conflict_delete_roots(path, dest_tree,
                                              build_dest_parent_prefixes(dest_tree)))
               ELSE st
    IN PlanAdd(st1, SrcAction(path))

\* The body of the second loop without the test !src_tree.contains(path).
DestStepIgnoringSource(st, path) ==
    IF /\ path \notin st.planned_deletes
       /\ ~is_covered_by_planned_delete(path, st.planned_deletes)
    THEN PlanAdd(st, Delete(path))
    ELSE st

\* The body of `for (path, _dest_entry) in dest_tree.iter()`.
DestStep(st, path) ==
    IF /\ path \notin DOMAIN src_tree
       /\ path \notin st.planned_deletes
       /\ ~is_covered_by_planned_delete(path, st.planned_deletes)
    THEN PlanAdd(st, Delete(path))
    ELSE st

RECURSIVE SrcLoop(_, _)
SrcLoop(st, order) ==
    IF order = <<>> THEN st ELSE SrcLoop(SrcStep(st, Head(order)), Tail(order))

RECURSIVE DestLoop(_, _)
DestLoop(st, order) ==
    IF order = <<>> THEN st ELSE DestLoop(DestStep(st, Head(order)), Tail(order))

\* The plan generate_sync_plan returns when the hash maps of the two trees
\* are iterated in the orders src_order and dest_order.
generate_sync_plan(src_order, dest_order) ==
    LET st1 == SrcLoop(NewSyncState, src_order)
        st2 == IF allow_deletes THEN DestLoop(st1, dest_order) ELSE st1
    IN [actions |-> SortedByPath(st2.actions), stats |-> st2.stats]

\* The orders in which a HashMap may hand out the keys S.
Orders(S) ==
    {o \in [1..Cardinality(S) -> S] : \A i, j \in DOMAIN o : o[i] = o[j] => i = j}

SyncPaths == {<<1>>, <<2>>, <<1, 1>>, <<1, 2>>}

\* A source file, as the scanner enters it: no digest cached.
SrcFile(path) == FileEntry_new(path, 1, 1)

\* The destination files a path may hold, each with the digest of its
\* bytes: one equal to the source file, one older with the same bytes, one
\* newer that cannot be read.
DestFiles(path) ==
    {[entry |-> FileEntry_new(path, 1, 1), digest |-> HashOk(1)],
     [entry |-> FileEntry_new(path, 1, 0), digest |-> HashOk(1)],
     [entry |-> FileEntry_new(path, 1, 2), digest |-> HashErr]}

InitSpecSync ==
    /\ IdleExecPlanTree
    /\ IdleIo
    /\ cmp_src = NoEntry /\ cmp_dest = NoEntry /\ cmp_action = NoAction
    /\ config \in {NewConfig(m, b) : m \in DeleteModes, b \in BOOLEAN}
    /\ \E S \in SUBSET SyncPaths :
        /\ Cardinality(S) <= MaxTreeEntries
        /\ src_tree = [path \in S |-> SrcFile(path)]
    /\ \E D \in SUBSET SyncPaths :
        /\ Cardinality(D) <= MaxTreeEntries
        /\ \E files \in [D -> UNION {DestFiles(path) : path \in D}] :
            /\ \A path \in D : files[path] \in DestFiles(path)
            /\ dest_tree = [path \in D |-> files[path].entry]
            /\ disk = [src |-> [path \in SyncPaths |->
                                    IF path \in DOMAIN src_tree
                                    THEN HashOk(1) ELSE HashErr],
                       dest |-> [path \in SyncPaths |->
                                    IF path \in D
                                    THEN files[path].digest ELSE HashErr]]

GenerateSyncPlan ==
    /\ plan_op = "off"
    /\ \E src_order \in Orders(DOMAIN src_tree) :
        \E dest_order \in Orders(DOMAIN dest_tree) :
            LET returned == generate_sync_plan(src_order, dest_order)
            IN /\ actions' = returned.actions
               /\ pstats' = returned.stats
    /\ plan_op' = "generated"
    /\ UNCHANGED <<execVars, treeVars, diffVars, ioVars>>

NextSync == GenerateSyncPlan

SpecSync == InitSpecSync /\ [][NextSync]_vars

(***************************************************************************)
(* Specification of the executor                                           *)
(***************************************************************************)
Init == InitExec /\ IdlePlan /\ IdleTree /\ IdleDiff /\ IdleIo

Next ==
    \/ SeqStart
    \/ SeqExec
    \/ SeqComplete
    \/ ParSpawn
    \/ ParJoinFirst
    \/ ParDrainBarrier
    \/ ParBarrierStart
    \/ ParBarrierExec
    \/ ParDrainFinal
    \/ ParComplete
    \/ \E i \in 1..Len(plan) : WorkerFinish(i)

Spec == Init /\ [][Next]_vars

(***************************************************************************)
(* Executor: properties                                                    *)
(***************************************************************************)
IsStart(e) == e.type = "ActionStart"
IsTerminal(e) == e.type \in {"ActionSuccess", "ActionError"}
IsComplete(e) == e.type = "Complete"

StartPos(i) == {p \in DOMAIN events : IsStart(events[p]) /\ events[p].index = i}
TermPos(i) == {p \in DOMAIN events : IsTerminal(events[p]) /\ events[p].index = i}
CompletePos == {p \in DOMAIN events : IsComplete(events[p])}
FailedIndexes ==
    {events[p].index : p \in {q \in DOMAIN events : events[q].type = "ActionError"}}

\* A barrier of the parallel executor, as the contract words it: Delete,
\* Skip, Move, or a transfer larger than 16 MiB.
IsBarrierAction(a) ==
    \/ a.kind \in {"Delete", "Skip", "Move"}
    \/ a.kind \in {"CopyNew", "Overwrite"} /\ a.entry.size > 16 * 1024 * 1024

NoWorkerPanicked == \A i \in DOMAIN worker : worker[i] # WorkerPanicked
Unjoined == {i \in DOMAIN worker : worker[i] # NoWorker /\ i \notin joined}

\* C1: the sink of the sequential executor observes ActionStart(i) directly
\* followed by one ActionSuccess(i) or ActionError(i), for i = 1..n in plan
\* order, and then one Complete as the last event.
C1_SequentialEventOrder ==
    mode = "seq" =>
        /\ Len(events) <= 2 * Total + 1
        /\ \A p \in DOMAIN events :
            IF p = 2 * Total + 1
            THEN IsComplete(events[p])
            ELSE IF p % 2 = 1
                 THEN IsStart(events[p]) /\ events[p].index = (p + 1) \div 2
                 ELSE IsTerminal(events[p]) /\ events[p].index = p \div 2
        /\ (pc = "done" => Len(events) = 2 * Total + 1)

C1_Witness ==
    /\ mode = "seq" /\ pc = "done" /\ Total >= 3
    /\ \E p, q \in DOMAIN events :
        events[p].type = "ActionError" /\ events[q].type = "ActionSuccess" /\ p < q

\* What the call has returned is the summary error of build_error_summary.
ReturnedSummary ==
    /\ result.tag = "Err"
    /\ result.kind = "Validation"
    /\ result.msg.text = "Sync completed with error(s)"

ContinueOnErrorAtReturn ==
    /\ \A i \in FailedIndexes : \A j \in (i + 1)..Total : TermPos(j) # {}
    /\ ReturnedSummary <=> FailedIndexes # {}
    /\ FailedIndexes = {} => result = ReturnOk(stats)
    /\ ReturnedSummary =>
        /\ Len(result.msg.preview) <= 3
        /\ result.msg.count = Cardinality(FailedIndexes)
        /\ result.msg.preview = Take(errors, 3)

\* C2 as claimed: in both executors a failure never stops later actions, the
\* call returns Err(Validation(summary)) exactly when an action failed and
\* Ok(stats) otherwise, and the summary previews at most three failures.
C2_ContinueOnError_Claimed ==
    (mode \in {"seq", "par"} /\ pc = "done") => ContinueOnErrorAtReturn

\* C2 amended: the same, for execute_plan and for execute_plan_parallel when
\* no worker thread panics.
C2_ContinueOnError ==
    (mode \in {"seq", "par"} /\ pc = "done" /\ NoWorkerPanicked)
        => ContinueOnErrorAtReturn

C2_Witness ==
    /\ mode = "seq" /\ pc = "done"
    /\ Cardinality(FailedIndexes) = 4
    /\ ReturnedSummary

\* C3: when a barrier action at plan index k starts in the parallel
\* executor, every small transfer before k has been joined, has had its
\* terminal event emitted and its result recorded; no small transfer's
\* terminal event follows the start of a later barrier.
C3_ParallelBarrier ==
    mode = "par" =>
        /\ \A p \in DOMAIN events :
            (IsStart(events[p]) /\ IsBarrierAction(plan[events[p].index])) =>
                /\ \A j \in 1..(events[p].index - 1) :
                    ~IsBarrierAction(plan[j]) =>
                        \E q \in 1..(p - 1) :
                            IsTerminal(events[q]) /\ events[q].index = j
                /\ \A q \in (p + 1)..Len(events) :
                    (IsTerminal(events[q]) /\ ~IsBarrierAction(plan[events[q].index]))
                        => events[q].index > events[p].index
        /\ pc = "barrier" =>
            /\ in_flight = <<>>
            /\ \A j \in 1..idx : ~IsBarrierAction(plan[j]) => j \in joined
            /\ stats.completed_actions + stats.failed_actions = idx
            /\ Len(errors) = Cardinality(FailedIndexes)

C3_Witness ==
    /\ mode = "par" /\ pc = "barrier" /\ worker_count >= 2 /\ idx >= 2
    /\ ~IsBarrierAction(plan[idx]) /\ ~IsBarrierAction(plan[idx - 1])

\* C4: a barrier action of the parallel executor runs on the calling thread
\* with nothing else going on: its ActionStart is directly followed by its
\* own terminal event, and no later action is started, and no worker runs,
\* before that.
C4_BarrierNoOverlap ==
    mode = "par" =>
        /\ \A p \in DOMAIN events :
            (IsStart(events[p]) /\ IsBarrierAction(plan[events[p].index])) =>
                /\ p < Len(events) =>
                    IsTerminal(events[p + 1])
                        /\ events[p + 1].index = events[p].index
                /\ \A q \in 1..p :
                    IsStart(events[q]) => events[q].index <= events[p].index
        /\ \A k \in 1..Total :
            (IsBarrierAction(plan[k]) /\ StartPos(k) # {} /\ TermPos(k) = {}) =>
                /\ \A j \in DOMAIN worker : worker[j] # WorkerRunning
                /\ \A j \in (k + 1)..Total : worker[j] = NoWorker

C4_Witness ==
    /\ mode = "par"
    /\ \E p \in DOMAIN events :
        /\ IsStart(events[p]) /\ IsBarrierAction(plan[events[p].index])
        /\ plan[events[p].index].kind \in {"CopyNew", "Overwrite"}
        /\ p + 2 <= Len(events)
        /\ IsStart(events[p + 2])

\* C5: the parallel executor emits the ActionStart events in plan order
\* 1, 2, ..., whatever the order in which workers complete.
C5_StartsInPlanOrder ==
    mode = "par" =>
        \A p \in DOMAIN events :
            IsStart(events[p]) =>
                events[p].index
                    = 1 + Cardinality({q \in 1..(p - 1) : IsStart(events[q])})

C5_Witness ==
    /\ mode = "par" /\ pc = "done" /\ Total >= 3
    /\ StartPos(3) # {}
    /\ \E p \in TermPos(1) : \E q \in StartPos(3) : q < p

\* C6: when no worker panics, the parallel executor emits Complete once, as
\* the last event, and by then every plan index has had exactly one
\* ActionStart followed by exactly one terminal event.
C6_ParallelCompleteOnce ==
    mode = "par" =>
        /\ \A p \in CompletePos : p = Len(events)
        /\ (pc = "done" /\ NoWorkerPanicked) =>
            /\ CompletePos = {Len(events)}
            /\ Len(events) = 2 * Total + 1
            /\ \A i \in 1..Total :
                /\ Cardinality(StartPos(i)) = 1
                /\ Cardinality(TermPos(i)) = 1
                /\ \A p \in StartPos(i) : \A q \in TermPos(i) : p < q

C6_Witness ==
    /\ mode = "par" /\ pc = "done" /\ NoWorkerPanicked /\ Total >= 3
    /\ \E p \in TermPos(3) : \E q \in TermPos(2) : p < q

\* C7: the number of spawned, not yet joined worker threads never exceeds
\* max(config.threads, 1).
C7_BoundedParallelism ==
    mode = "par" => Cardinality(Unjoined) <= Max(threads, 1)

C7_Witness ==
    /\ mode = "par" /\ threads = 0 /\ Total >= 2
    /\ Cardinality(Unjoined) = 1 /\ idx >= 1

\* C8: a joined worker that panicked makes the parallel executor return
\* Err(Validation("parallel worker thread panicked")); nothing else does,
\* and a run that did not end that way has attempted every action.
C8_WorkerPanicAborts ==
    mode = "par" =>
        /\ (\E h \in joined : worker[h] = WorkerPanicked)
            <=> result = ReturnPanic
        /\ result = ReturnPanic => pc = "done" /\ CompletePos = {}
        /\ (pc = "done" /\ \E i \in DOMAIN worker : worker[i] = WorkerPanicked)
            => result = ReturnPanic
        /\ (pc = "done" /\ result # ReturnPanic) =>
            /\ \A i \in 1..Total : TermPos(i) # {}
            /\ CompletePos # {}

C8_Witness ==
    /\ mode = "par" /\ result = ReturnPanic
    /\ FailedIndexes # {}
    /\ \E i \in 1..Total : StartPos(i) = {}

(***************************************************************************)
(* DiffPlan and FileTree: properties                                       *)
(***************************************************************************)
CountKind(s, k) == Cardinality({i \in DOMAIN s : s[i].kind = k})

RECURSIVE TransferBytes(_)
TransferBytes(s) ==
    IF s = <<>>
    THEN 0
    ELSE TransferBytes(Tail(s))
            + (IF Head(s).kind \in {"CopyNew", "Overwrite"}
               THEN Head(s).entry.size ELSE 0)

Occurrences(s, a) == Cardinality({i \in DOMAIN s : s[i] = a})
SameMultiset(s, t) ==
    /\ Len(s) = Len(t)
    /\ \A i \in DOMAIN s : Occurrences(s, s[i]) = Occurrences(t, s[i])

CountersAgree ==
    /\ pstats.copy_count = CountKind(actions, "CopyNew")
    /\ pstats.overwrite_count = CountKind(actions, "Overwrite")
    /\ pstats.delete_count = CountKind(actions, "Delete")
    /\ pstats.skip_count = CountKind(actions, "Skip")
    /\ pstats.total_files = pstats.copy_count + pstats.overwrite_count
    /\ pstats.total_bytes = TransferBytes(actions)

SortKeepsPlan ==
    plan_op' = "sort" => pstats' = pstats /\ SameMultiset(actions, actions')

\* C9: after any add_action calls, optionally followed by sort_by_path, each
\* counter equals the number of actions of its variant, total_files is
\* copy_count + overwrite_count and total_bytes the sum of the transfer
\* sizes; sort_by_path changes no counter and keeps the multiset of actions.
C9_PlanCounters == []CountersAgree /\ [][SortKeepsPlan]_vars

C9_Witness ==
    /\ plan_op = "sort" /\ Len(actions) = 3
    /\ actions[1].kind = "Overwrite" /\ actions[1].entry.size > 0
    /\ actions[2].kind = "Move"
    /\ actions[3].kind = "Skip"

RECURSIVE SumSizes(_)
SumSizes(S) ==
    IF S = {}
    THEN 0
    ELSE LET p == CHOOSE q \in S : TRUE
         IN entries[p].size + SumSizes(S \ {p})

\* C10: after any inserts, repeated paths included, total_files is the number
\* of entries and total_size the sum of the sizes of the entries stored.
C10_TreeAggregates ==
    /\ total_files = Cardinality(DOMAIN entries)
    /\ total_size = SumSizes(DOMAIN entries)

C10_Witness ==
    /\ tree_op = "resize"
    /\ Cardinality(DOMAIN entries) >= 2
    /\ total_size > 0

(***************************************************************************)
(* compare_files: properties                                               *)
(***************************************************************************)
Compared == cmp_action # NoAction
BothRegular == ~cmp_src.is_symlink /\ ~cmp_dest.is_symlink
BothSymlinks == cmp_src.is_symlink /\ cmp_dest.is_symlink

\* The digest compare_files works with on one side: the one cached on the
\* entry, else what reading the file gives.
DigestOf(entry, root) ==
    IF entry.hash # NoHash THEN HashOk(entry.hash) ELSE disk[root][entry.path]

\* C11: when exactly one of src and dest is a symlink, compare_files returns
\* Overwrite(src), whatever the sizes, the mtimes and checksum_mode.
C11_KindMismatchOverwrites ==
    (Compared /\ cmp_src.is_symlink # cmp_dest.is_symlink)
        => cmp_action = Overwrite(cmp_src)

\* C12: when src and dest are both symlinks, compare_files returns Skip if
\* their targets are equal and Overwrite(src) if they are not, whatever the
\* sizes and the mtimes.
C12_SymlinkTargets ==
    (Compared /\ BothSymlinks) =>
        IF cmp_src.symlink_target = cmp_dest.symlink_target
        THEN cmp_action = Skip
        ELSE cmp_action = Overwrite(cmp_src)

\* C13: for two regular files with checksum_mode off, compare_files returns
\* Overwrite(src) exactly when the sizes differ or the source mtime is
\* strictly newer, and Skip otherwise.
C13_MetadataCompare ==
    (Compared /\ BothRegular /\ ~config.checksum_mode) =>
        /\ cmp_action = Overwrite(cmp_src)
            <=> (cmp_src.size # cmp_dest.size \/ cmp_src.mtime > cmp_dest.mtime)
        /\ (cmp_src.size = cmp_dest.size /\ cmp_src.mtime <= cmp_dest.mtime)
            => cmp_action = Skip

C13_Witness ==
    /\ Compared /\ BothRegular /\ ~config.checksum_mode
    /\ cmp_src.size = cmp_dest.size /\ cmp_src.size > 0
    /\ cmp_src.mtime = cmp_dest.mtime
    /\ cmp_action = Skip

\* C14: for two regular files with checksum_mode on, compare_files returns
\* Overwrite(src) when the sizes differ; with equal sizes it returns Skip
\* exactly when both digests, cached or computed, are obtained and equal,
\* whatever the mtimes, and Overwrite(src) otherwise.
C14_ChecksumCompare ==
    (Compared /\ BothRegular /\ config.checksum_mode) =>
        LET s == DigestOf(cmp_src, "src")
            d == DigestOf(cmp_dest, "dest")
        IN /\ cmp_src.size # cmp_dest.size => cmp_action = Overwrite(cmp_src)
           /\ cmp_src.size = cmp_dest.size =>
                /\ cmp_action = Skip <=> (s.ok /\ d.ok /\ s.hash = d.hash)
                /\ cmp_action # Skip => cmp_action = Overwrite(cmp_src)

C14_Witness ==
    /\ Compared /\ BothRegular /\ config.checksum_mode
    /\ cmp_src.size = cmp_dest.size
    /\ cmp_src.mtime > cmp_dest.mtime
    /\ cmp_src.hash = NoHash /\ cmp_dest.hash # NoHash
    /\ ~disk["dest"][cmp_dest.path].ok
    /\ cmp_action = Skip

(***************************************************************************)
(* generate_sync_plan: properties                                          *)
(***************************************************************************)
Generated == plan_op = "generated"

IsStrictAncestor(a, path) ==
    a # <<>> /\ Len(a) < Len(path) /\ SubSeq(path, 1, Len(a)) = a

\* A tree a filesystem can hold: no entry sits beneath another entry.
FsConsistent(tree) ==
    \A a, b \in DOMAIN tree : ~IsStrictAncestor(a, b)

Indexes(action) == {i \in DOMAIN actions : actions[i] = action}
IndexesOf(kind, path) ==
    {i \in DOMAIN actions :
        actions[i].kind = kind /\ ActionPath(actions[i]) = path}
DeleteIndexes == {i \in DOMAIN actions : actions[i].kind = "Delete"}

\* SelectSeq(s, HasPath)
RECURSIVE Pathed(_)
Pathed(s) ==
    IF s = <<>> THEN <<>>
    ELSE IF HasPath(Head(s)) THEN <<Head(s)>> \o Pathed(Tail(s))
    ELSE Pathed(Tail(s))

\* C15: the plan holds one non-Delete action for every source path:
\* CopyNew(entry) when the destination has no entry at the path, else what
\* compare_files returns, a Skip being recorded as such; so copy_count +
\* overwrite_count + skip_count is the number of source entries, in every
\* delete mode.
C15_OneActionPerSourcePath ==
    Generated =>
        /\ \A path \in DOMAIN src_tree :
            LET copies == IndexesOf("CopyNew", path)
                overwrites == IndexesOf("Overwrite", path)
            IN IF path \notin DOMAIN dest_tree
               THEN /\ Cardinality(copies) = 1
                    /\ overwrites = {}
                    /\ Indexes(CopyNew(src_tree[path])) = copies
               ELSE /\ copies = {}
                    /\ IF compare_files(src_tree[path], dest_tree[path], config) = Skip
                       THEN overwrites = {}
                       ELSE /\ Cardinality(overwrites) = 1
                            /\ Indexes(Overwrite(src_tree[path])) = overwrites
        /\ \A i \in DOMAIN actions :
            /\ actions[i].kind \in {"CopyNew", "Overwrite", "Delete", "Skip"}
            /\ actions[i].kind \in {"CopyNew", "Overwrite"}
                => ActionPath(actions[i]) \in DOMAIN src_tree
        /\ CountKind(actions, "Skip")
            = Cardinality({path \in DOMAIN src_tree \cap DOMAIN dest_tree :
                compare_files(src_tree[path], dest_tree[path], config) = Skip})
        /\ pstats.copy_count + pstats.overwrite_count + pstats.skip_count
            = Cardinality(DOMAIN src_tree)
        /\ pstats.skip_count = CountKind(actions, "Skip")

C15_Witness ==
    /\ Generated /\ config.delete_mode = "Trash"
    /\ pstats.copy_count = 1 /\ pstats.skip_count = 1
    /\ pstats.delete_count = 2
    /\ Cardinality(DOMAIN src_tree) = 2

\* C16: with delete_mode = None the plan holds no Delete, whatever the
\* trees: orphans and file/directory conflicts stay where they are.
C16_NoDeleteInNoneMode ==
    (Generated /\ config.delete_mode = "None") =>
        /\ DeleteIndexes = {}
        /\ pstats.delete_count = 0

C16_Witness ==
    /\ Generated /\ config.delete_mode = "None"
    /\ DOMAIN src_tree = {<<1>>}
    /\ DOMAIN dest_tree = {<<1, 1>>, <<2>>}
    /\ Len(actions) = 1

\* C17: with delete_mode != None every destination path the source lacks
\* is removed by the plan: it is the path of one Delete, never of two, or
\* an ancestor of it is the path of a Delete; an empty source gives one
\* Delete per destination entry and nothing else.
C17_OrphansRemoved ==
    (Generated /\ config.delete_mode # "None") =>
        /\ \A path \in DOMAIN dest_tree \ DOMAIN src_tree :
            /\ Cardinality(IndexesOf("Delete", path)) <= 1
            /\ \/ Cardinality(IndexesOf("Delete", path)) = 1
               \/ \E i \in DeleteIndexes :
                    IsStrictAncestor(actions[i].path, path)
        /\ DOMAIN src_tree = {} =>
            /\ Len(actions) = Cardinality(DOMAIN dest_tree)
            /\ \A path \in DOMAIN dest_tree :
                Cardinality(Indexes(Delete(path))) = 1

C17_Witness ==
    /\ Generated /\ config.delete_mode = "Permanent"
    /\ DOMAIN src_tree = {<<1>>}
    /\ DOMAIN dest_tree = {<<1, 2>>, <<2>>}
    /\ IndexesOf("Delete", <<1, 2>>) = {}
    /\ IndexesOf("Delete", <<2>>) # {}

\* The destination entry nearest above a path, if there is one.
BlockingFiles(path) ==
    {a \in DOMAIN dest_tree :
        /\ IsStrictAncestor(a, path)
        /\ \A b \in DOMAIN dest_tree :
            IsStrictAncestor(b, path) => Len(b) <= Len(a)}

\* C18: with delete_mode != None, in the plan returned every Delete stands
\* before every CopyNew whose path is the Delete's path or lies beneath it;
\* CopyNew(a) for a path with destination entries beneath it has Delete(a)
\* before it, and a CopyNew beneath a destination file has the Delete of
\* that file before it.
C18_ConflictDeleteFirst ==
    (Generated /\ config.delete_mode # "None") =>
        /\ \A i, j \in DOMAIN actions :
            (/\ actions[i].kind = "Delete"
             /\ actions[j].kind = "CopyNew"
             /\ \/ actions[i].path = actions[j].entry.path
                \/ IsStrictAncestor(actions[i].path, actions[j].entry.path))
                => i < j
        /\ \A j \in DOMAIN actions :
            actions[j].kind = "CopyNew" =>
                /\ (\E d \in DOMAIN dest_tree :
                        IsStrictAncestor(actions[j].entry.path, d))
                    => \E i \in 1..(j - 1) :
                        actions[i] = Delete(actions[j].entry.path)
                /\ \A a \in BlockingFiles(actions[j].entry.path) :
                    \E i \in 1..(j - 1) : actions[i] = Delete(a)

C18_Witness ==
    /\ Generated /\ config.delete_mode = "Trash"
    /\ DOMAIN src_tree = {<<1>>, <<2>>}
    /\ DOMAIN dest_tree = {<<1, 1>>, <<1, 2>>}
    /\ Len(actions) = 3
    /\ actions[1] = Delete(<<1>>)
    /\ actions[2] = CopyNew(src_tree[<<1>>])
    /\ actions[3] = CopyNew(src_tree[<<2>>])

\* C19: for two trees that a filesystem can hold, no path is the path of
\* two Deletes of the plan, and no Delete's path lies beneath the path of
\* another Delete.
C19_DeletesDisjoint ==
    (Generated /\ FsConsistent(src_tree) /\ FsConsistent(dest_tree)) =>
        \A i, j \in DeleteIndexes :
            /\ actions[i].path = actions[j].path => i = j
            /\ ~IsStrictAncestor(actions[i].path, actions[j].path)

C19_Witness ==
    /\ Generated /\ config.delete_mode = "Trash"
    /\ DOMAIN src_tree = {<<1, 1>>, <<1, 2>>}
    /\ DOMAIN dest_tree = {<<1>>, <<2>>}
    /\ Cardinality(DeleteIndexes) = 2

\* The plan is sorted by path, the actions without a path last.
PlanSorted ==
    \A i, j \in DOMAIN actions :
        i < j =>
            /\ HasPath(actions[j]) => HasPath(actions[i])
            /\ (HasPath(actions[i]) /\ HasPath(actions[j]))
                => PathCmp(ActionPath(actions[i]), ActionPath(actions[j])) <= 0

\* Every iteration order of the two maps gives the pathed actions in the
\* order of the plan returned.
OrderIndependent ==
    \A src_order \in Orders(DOMAIN src_tree) :
        \A dest_order \in Orders(DOMAIN dest_tree) :
            Pathed(generate_sync_plan(src_order, dest_order).actions)
                = Pathed(actions)

ProcessId == 7
\* Two threads of the process, each making one call.
CopyThreads == {1, 2}
CopyBasenames == {<<"f">>, <<"g">>}
CopyDests == {[parent |-> "d", file_name |-> b] : b \in CopyBasenames}
OldData == 0

RECURSIVE to_string(_)
to_string(n) == IF n < 10 THEN <<n>> ELSE to_string(n \div 10) \o <<n % 10>>

with_file_name(path, name) == [path EXCEPT !.file_name = name]

temp_name_without_counter(basename, unique) ==
    <<".">> \o basename \o <<".kopy.part.">> \o to_string(ProcessId)

\* The name build_temp_path pushes together, unique being the value
\* fetch_add returned.
temp_name(basename, unique) ==
    <<".">> \o basename \o <<".kopy.part.">> \o to_string(ProcessId)
        \o <<".">> \o to_string(unique)

build_temp_path(dest, unique) ==
    with_file_name(dest, temp_name(dest.file_name, unique))

\* What File::create leaves at a path, and the whole copy of a call's source.
CreatedFile(c) == [data |-> c, len |-> 0, perm |-> "default", mtime |-> "now"]
OldFile == [data |-> OldData, len |-> MaxFileSize, perm |-> "old", mtime |-> "old"]
WholeCopy(c) == [data |-> c, len |-> calls[c].src_len, perm |-> "src", mtime |-> "src"]

NoResult == [kind |-> "none"]
CopyOk(total_bytes) == [kind |-> "Ok", total_bytes |-> total_bytes]
CopyErr(step) == [kind |-> "Err", step |-> step]

NewCall(dest, src_len) ==
    [dest |-> dest, src_len |-> src_len, pc |-> "build_temp_path",
     part_path |-> NoPath, total_bytes |-> 0, bytes_read |-> 0,
     copy_result |-> NoResult, unlinked |-> "no"]

InitSpecCopy ==
    /\ IdleExecPlanTree
    /\ IdleDiff
    /\ IdleTrash
    /\ IdleRun
    /\ IdlePar
    /\ COPY_TEMP_COUNTER = 0
    /\ \E present \in SUBSET CopyDests : fs = [path \in present |-> OldFile]
    /\ fs_before = fs
    /\ calls \in {[c \in CopyThreads |-> NewCall(dests[c], lens[c])] :
                    dests \in {d \in [CopyThreads -> CopyDests] :
                                    d[1].file_name = <<"f">>},
                    lens \in [CopyThreads -> 1..MaxFileSize]}

At(c, step) == calls[c].pc = step

\* `?` inside the closure: the closure returns the mapped error.
Fails(c, step) ==
    calls' = [calls EXCEPT ![c].copy_result = CopyErr(step), ![c].pc = "cleanup"]

Goes(c, step) == calls' = [calls EXCEPT ![c].pc = step]

\* let part_path = build_temp_path(dest), with the fetch_add inside it.
BuildTempPath ==
    \E c \in CopyThreads :
        /\ At(c, "build_temp_path")
        /\ COPY_TEMP_COUNTER' = COPY_TEMP_COUNTER + 1
        /\ calls' = [calls EXCEPT
               ![c].part_path = build_temp_path(calls[c].dest, COPY_TEMP_COUNTER),
               ![c].pc = "create_dir_all"]
        /\ UNCHANGED <<fs, fs_before>>
        /\ UNCHANGED <<execVars, planVars, treeVars, diffVars, trashVars, runVars, parVars>>

CreateDirAll ==
    \E c \in CopyThreads, ok \in BOOLEAN :
        /\ At(c, "create_dir_all")
        /\ IF ok THEN Goes(c, "open") ELSE Fails(c, "create_dir_all")
        /\ UNCHANGED <<COPY_TEMP_COUNTER, fs, fs_before>>
        /\ UNCHANGED <<execVars, planVars, treeVars, diffVars, trashVars, runVars, parVars>>

OpenSrc ==
    \E c \in CopyThreads, ok \in BOOLEAN :
        /\ At(c, "open")
        /\ IF ok THEN Goes(c, "create") ELSE Fails(c, "open")
        /\ UNCHANGED <<COPY_TEMP_COUNTER, fs, fs_before>>
        /\ UNCHANGED <<execVars, planVars, treeVars, diffVars, trashVars, runVars, parVars>>

write_target_dest(call) == call.dest

\* The path the bytes are written to.
write_target(call) == call.part_path

\* File::create(&part_path): creates the file, or truncates the one there.
CreatePart ==
    \E c \in CopyThreads, ok \in BOOLEAN :
        /\ At(c, "create")
        /\ IF ok
           THEN /\ fs' = (write_target(calls[c]) :> CreatedFile(c)) @@ fs
                /\ Goes(c, "read")
           ELSE /\ Fails(c, "create")
                /\ UNCHANGED fs
        /\ UNCHANGED <<COPY_TEMP_COUNTER, fs_before>>
        /\ UNCHANGED <<execVars, planVars, treeVars, diffVars, trashVars, runVars, parVars>>

\* src_file.read(&mut buffer), followed by the test for EOF.
ReadSrc ==
    \E c \in CopyThreads, ok \in BOOLEAN :
        /\ At(c, "read")
        /\ IF ~ok
           THEN Fails(c, "read")
           ELSE IF calls[c].total_bytes = calls[c].src_len
                THEN calls' = [calls EXCEPT ![c].bytes_read = 0, ![c].pc = "sync_all"]
                ELSE calls' = [calls EXCEPT ![c].bytes_read = 1, ![c].pc = "write_all"]
        /\ UNCHANGED <<COPY_TEMP_COUNTER, fs, fs_before>>
        /\ UNCHANGED <<execVars, planVars, treeVars, diffVars, trashVars, runVars, parVars>>

\* part_file.write_all(..); total_bytes += bytes_read.
WriteAll ==
    \E c \in CopyThreads, ok \in BOOLEAN :
        /\ At(c, "write_all")
        /\ IF ok /\ write_target(calls[c]) \in DOMAIN fs
           THEN /\ fs' = [fs EXCEPT ![write_target(calls[c])].len =
                                        @ + calls[c].bytes_read]
                /\ calls' = [calls EXCEPT ![c].total_bytes = @ + calls[c].bytes_read,
                                          ![c].pc = "read"]
           ELSE /\ Fails(c, "write_all")
                /\ UNCHANGED fs
        /\ UNCHANGED <<COPY_TEMP_COUNTER, fs_before>>
        /\ UNCHANGED <<execVars, planVars, treeVars, diffVars, trashVars, runVars, parVars>>

SyncAll ==
    \E c \in CopyThreads, ok \in BOOLEAN :
        /\ At(c, "sync_all")
        /\ IF ok THEN Goes(c, "metadata") ELSE Fails(c, "sync_all")
        /\ UNCHANGED <<COPY_TEMP_COUNTER, fs, fs_before>>
        /\ UNCHANGED <<execVars, planVars, treeVars, diffVars, trashVars, runVars, parVars>>

Metadata ==
    \E c \in CopyThreads, ok \in BOOLEAN :
        /\ At(c, "metadata")
        /\ IF ok THEN Goes(c, "set_permissions") ELSE Fails(c, "metadata")
        /\ UNCHANGED <<COPY_TEMP_COUNTER, fs, fs_before>>
        /\ UNCHANGED <<execVars, planVars, treeVars, diffVars, trashVars, runVars, parVars>>

SetPermissions ==
    \E c \in CopyThreads, ok \in BOOLEAN :
        /\ At(c, "set_permissions")
        /\ IF ok /\ write_target(calls[c]) \in DOMAIN fs
           THEN /\ fs' = [fs EXCEPT ![write_target(calls[c])].perm = "src"]
                /\ Goes(c, "modified")
           ELSE /\ Fails(c, "set_permissions")
                /\ UNCHANGED fs
        /\ UNCHANGED <<COPY_TEMP_COUNTER, fs_before>>
        /\ UNCHANGED <<execVars, planVars, treeVars, diffVars, trashVars, runVars, parVars>>

Modified ==
    \E c \in CopyThreads, ok \in BOOLEAN :
        /\ At(c, "modified")
        /\ IF ok THEN Goes(c, "set_file_mtime") ELSE Fails(c, "modified")
        /\ UNCHANGED <<COPY_TEMP_COUNTER, fs, fs_before>>
        /\ UNCHANGED <<execVars, planVars, treeVars, diffVars, trashVars, runVars, parVars>>

SetFileMtime ==
    \E c \in CopyThreads, ok \in BOOLEAN :
        /\ At(c, "set_file_mtime")
        /\ IF ok /\ write_target(calls[c]) \in DOMAIN fs
           THEN /\ fs' = [fs EXCEPT ![write_target(calls[c])].mtime = "src"]
                /\ Goes(c, "rename")
           ELSE /\ Fails(c, "set_file_mtime")
                /\ UNCHANGED fs
        /\ UNCHANGED <<COPY_TEMP_COUNTER, fs_before>>
        /\ UNCHANGED <<execVars, planVars, treeVars, diffVars, trashVars, runVars, parVars>>

Without(f, path) == [p \in DOMAIN f \ {path} |-> f[p]]

\* fs::rename(&part_path, dest), then Ok(total_bytes).
Rename ==
    \E c \in CopyThreads, ok \in BOOLEAN :
        /\ At(c, "rename")
        /\ IF ok /\ write_target(calls[c]) \in DOMAIN fs
           THEN /\ fs' = (calls[c].dest :> fs[write_target(calls[c])])
                            @@ Without(fs, write_target(calls[c]))
                /\ calls' = [calls EXCEPT
                       ![c].copy_result = CopyOk(calls[c].total_bytes),
                       ![c].pc = "cleanup"]
           ELSE /\ Fails(c, "rename")
                /\ UNCHANGED fs
        /\ UNCHANGED <<COPY_TEMP_COUNTER, fs_before>>
        /\ UNCHANGED <<execVars, planVars, treeVars, diffVars, trashVars, runVars, parVars>>

never_unlinks(call) == FALSE

\* copy_result.is_err() && part_path.exists()
unlinks(call) == call.copy_result.kind = "Err" /\ call.part_path \in DOMAIN fs

\* The unlink after the closure, its result dropped, and the return.
Cleanup ==
    \E c \in CopyThreads, ok \in BOOLEAN :
        /\ At(c, "cleanup")
        /\ IF unlinks(calls[c])
           THEN IF ok
                THEN /\ fs' = Without(fs, calls[c].part_path)
                     /\ calls' = [calls EXCEPT ![c].unlinked = "yes",
                                               ![c].pc = "returned"]
                ELSE /\ UNCHANGED fs
                     /\ calls' = [calls EXCEPT ![c].unlinked = "failed",
                                               ![c].pc = "returned"]
           ELSE /\ ok
                /\ UNCHANGED fs
                /\ Goes(c, "returned")
        /\ UNCHANGED <<COPY_TEMP_COUNTER, fs_before>>
        /\ UNCHANGED <<execVars, planVars, treeVars, diffVars, trashVars, runVars, parVars>>

NextCopy ==
    \/ BuildTempPath
    \/ CreateDirAll
    \/ OpenSrc
    \/ CreatePart
    \/ ReadSrc
    \/ WriteAll
    \/ SyncAll
    \/ Metadata
    \/ SetPermissions
    \/ Modified
    \/ SetFileMtime
    \/ Rename
    \/ Cleanup

SpecCopy == InitSpecCopy /\ [][NextCopy]_vars

(***************************************************************************)
(* Properties of copy_file_atomic (SpecCopy)                               *)
(***************************************************************************)
Returned(c) == calls[c].pc = "returned"
Succeeded(c) == calls[c].copy_result.kind = "Ok"
Failed(c) == calls[c].copy_result.kind = "Err"
PathF == [parent |-> "d", file_name |-> <<"f">>]
PathG == [parent |-> "d", file_name |-> <<"g">>]

\* The calls whose rename onto dest has happened.
WritersOf(dest) == {c \in CopyThreads : calls[c].dest = dest /\ Succeeded(c)}

\* C26: in every state of a copy, the destination path holds what it held
\* before the calls (nothing, if it held nothing) as long as no call onto it
\* has succeeded, and otherwise the whole content, permissions and mtime of the
\* source of a call that succeeded; it never holds part of a source, and a
\* call that fails leaves it as it was.
C26_AtomicCopy ==
    \A dest \in CopyDests :
        IF WritersOf(dest) = {}
        THEN /\ dest \in DOMAIN fs <=> dest \in DOMAIN fs_before
             /\ dest \in DOMAIN fs => fs[dest] = fs_before[dest]
        ELSE /\ dest \in DOMAIN fs
             /\ \E c \in WritersOf(dest) : fs[dest] = WholeCopy(c)

\* One call failed in write_all after the first read was written, over a
\* destination that held a file; the other call succeeded onto a path that
\* held nothing.
C26_Witness ==
    /\ Returned(1) /\ calls[1].copy_result = CopyErr("write_all")
    /\ calls[1].total_bytes = 1 /\ calls[1].src_len = 2
    /\ PathF \in DOMAIN fs /\ fs[PathF] = OldFile
    /\ Returned(2) /\ Succeeded(2) /\ calls[2].dest = PathG
    /\ PathG \notin DOMAIN fs_before
    /\ fs[PathG] = WholeCopy(2)

\* C27 as claimed: after a call has returned, the temp file it created does
\* not exist.
C27_TempFileGone_Claimed ==
    \A c \in CopyThreads : Returned(c) => calls[c].part_path \notin DOMAIN fs

C27_Step ==
    \A c \in CopyThreads :
        /\ (calls'[c].pc = "returned" /\ calls'[c].part_path \in DOMAIN fs')
               => calls'[c].unlinked = "failed"
        /\ (~Failed(c) /\ calls'[c].copy_result.kind = "Err")
               => calls'[c].copy_result = CopyErr(calls[c].pc)
        /\ Failed(c) => calls'[c].copy_result = calls[c].copy_result

\* C27: after a call has returned, with success or with an error, the temp
\* file it created does not exist unless the unlink of the temp file itself
\* failed; the error returned is the one of the step that failed, and the
\* unlink never replaces it.
C27_TempFileGone == [][C27_Step]_vars

\* A call failed in set_file_mtime, after the whole temp file was written,
\* and the unlink removed the temp file.
C27_Witness ==
    /\ Returned(1) /\ calls[1].copy_result = CopyErr("set_file_mtime")
    /\ calls[1].total_bytes = calls[1].src_len
    /\ calls[1].unlinked = "yes"
    /\ calls[1].part_path \notin DOMAIN fs

\* C28: any two calls of the process that have built their temp path,
\* concurrent calls onto one destination path included, have distinct temp
\* paths, each built from its own value of COPY_TEMP_COUNTER, which only
\* grows.
C28_Step ==
    /\ COPY_TEMP_COUNTER' >= COPY_TEMP_COUNTER
    /\ \A c, d \in CopyThreads :
        (c # d /\ calls'[c].part_path # NoPath /\ calls'[d].part_path # NoPath)
            => calls'[c].part_path # calls'[d].part_path

C28_DistinctTempPaths == [][C28_Step]_vars

\* Both calls are onto the same destination path and both have their temp
\* file on disk at once.
C28_Witness ==
    /\ calls[1].dest = calls[2].dest
    /\ calls[1].pc = "write_all" /\ calls[2].pc = "write_all"
    /\ calls[1].part_path \in DOMAIN fs
    /\ calls[2].part_path \in DOMAIN fs

(***************************************************************************)
(* move_to_trash (src/src/executor/trash.rs).  SpecTrash makes serial      *)
(* calls, one system call per step; between calls the clock may move to    *)
(* the next second and a file or symlink may appear under dest_root.  A    *)
(* relative path is the sequence of its components, a component the        *)
(* sequence of its pieces.  An item is a file or a symlink; id tells the   *)
(* items apart, id 0 being a file move_to_trash wrote itself; parses tells *)
(* whether the content parses as a TrashManifest, and json is its files.   *)
(***************************************************************************)
MaxTrashCalls == 2
MaxClock == 1

ManifestName == << <<"MANIFEST.json">> >>
TrashRelPaths == { << <<"a">> >>, << <<"l">> >>, ManifestName }

DeletedFile(original_path, trash_path, deleted_at, size) ==
    [original_path |-> original_path, trash_path |-> trash_path,
     deleted_at |-> deleted_at, size |-> size]

\* A record some other snapshot's manifest held.
ForeignRecord == DeletedFile(<< <<"x">> >>, << <<"x">> >>, 0, 1)

\* The items that can be found at a relative path under dest_root.
ItemsAt(relpath, id) ==
    IF relpath = << <<"l">> >>
    THEN {[kind |-> "symlink", id |-> id, size |-> 1, parses |-> FALSE,
           json |-> <<>>, resolves |-> r] : r \in BOOLEAN}
    ELSE IF relpath = ManifestName
         THEN {[kind |-> "file", id |-> id, size |-> 2, parses |-> b,
                json |-> IF b THEN <<ForeignRecord>> ELSE <<>>,
                resolves |-> TRUE] : b \in BOOLEAN}
         ELSE {[kind |-> "file", id |-> id, size |-> 2, parses |-> FALSE,
                json |-> <<>>, resolves |-> TRUE]}

\* The file fs::write(&manifest_path, manifest_json) leaves.
ManifestFile(manifest) ==
    [kind |-> "file", id |-> 0, size |-> Len(manifest.files), parses |-> TRUE,
     json |-> manifest.files, resolves |-> TRUE]

\* What a failed fs::write can leave: the file was truncated on opening.
TruncatedFile ==
    [kind |-> "file", id |-> 0, size |-> 0, parses |-> FALSE, json |-> <<>>,
     resolves |-> TRUE]

TrashManifest_new == [files |-> <<>>]
add_file(manifest, file) == [files |-> Append(manifest.files, file)]

trash_join(trash_root, relative) == [snapshot |-> trash_root, rel |-> relative]

exists_not_following_links(path) == path \in DOMAIN trash

\* Path::exists: follows symlinks, so false for a symlink whose target is
\* missing.
exists(path) == path \in DOMAIN trash /\ trash[path].resolves

Parent(relative_path) == SubSeq(relative_path, 1, Len(relative_path) - 1)
FileName(relative_path) == relative_path[Len(relative_path)]

unique_relative(relative_path, n) ==
    Parent(relative_path)
        \o << FileName(relative_path) \o <<".~kopy">> \o to_string(n) >>

RECURSIVE first_unique(_, _, _)
first_unique(trash_root, relative_path, n) ==
    IF ~exists(trash_join(trash_root, unique_relative(relative_path, n)))
    THEN unique_relative(relative_path, n)
    ELSE first_unique(trash_root, relative_path, n + 1)

\* The relative half of the pair resolve_unique_trash_path returns.
resolve_unique_trash_path(trash_root, relative_path) ==
    IF ~exists(trash_join(trash_root, relative_path))
    THEN relative_path
    ELSE first_unique(trash_root, relative_path, 1)

TrashOk == [kind |-> "Ok"]
TrashErr(step) == [kind |-> "Err", step |-> step]

InitSpecTrash ==
    /\ IdleExecPlanTree
    /\ IdleDiff
    /\ IdleCopy
    /\ IdleRun
    /\ IdlePar
    /\ clock = 0
    /\ dest_items = <<>>
    /\ trash = <<>>
    /\ tcall = NoCall
    /\ trash_log = <<>>
    /\ next_item = 0

Between == tcall.pc \in {"off", "returned"}
Within(step) == tcall.pc = step

\* The clock reaches the next second.
Tick ==
    /\ Between
    /\ clock < MaxClock
    /\ clock' = clock + 1
    /\ UNCHANGED <<dest_items, trash, tcall, trash_log, next_item>>
    /\ UNCHANGED <<execVars, planVars, treeVars, diffVars, copyVars, runVars, parVars>>

\* A file or symlink that the source does not have appears under dest_root.
Appear ==
    /\ Between
    /\ next_item < MaxTrashCalls
    /\ next_item' = next_item + 1
    /\ \E relpath \in TrashRelPaths \ DOMAIN dest_items :
        \E item \in ItemsAt(relpath, next_item + 1) :
            dest_items' = (relpath :> item) @@ dest_items
    /\ UNCHANGED <<clock, trash, tcall, trash_log>>
    /\ UNCHANGED <<execVars, planVars, treeVars, diffVars, copyVars, runVars, parVars>>

TrashFile(call) == trash_join(call.timestamp, call.trash_relative_path)
ManifestPath(call) == trash_join(call.timestamp, ManifestName)

TrashFails(step) ==
    tcall' = [tcall EXCEPT !.pc = "returned", !.result = TrashErr(step),
                           !.failures = @ + 1]
TrashGoes(step) == tcall' = [tcall EXCEPT !.pc = step]

\* The call, up to the pair resolve_unique_trash_path returns.
MoveToTrash ==
    /\ Between
    /\ tcall.calls < MaxTrashCalls
    /\ \E relative_path \in TrashRelPaths :
        tcall' = [NoCall EXCEPT
                  !.pc = "create_dir_all",
                  !.calls = tcall.calls + 1,
                  !.failures = tcall.failures,
                  !.relative_path = relative_path,
                  !.timestamp = clock,
                  !.trash_relative_path =
                      resolve_unique_trash_path(clock, relative_path)]
    /\ UNCHANGED <<clock, dest_items, trash, trash_log, next_item>>
    /\ UNCHANGED <<execVars, planVars, treeVars, diffVars, copyVars, runVars, parVars>>

TrashCreateDirAll ==
    /\ Within("create_dir_all")
    /\ \E ok \in BOOLEAN :
        IF ok THEN TrashGoes("symlink_metadata") ELSE TrashFails("create_dir_all")
    /\ UNCHANGED <<clock, dest_items, trash, trash_log, next_item>>
    /\ UNCHANGED <<execVars, planVars, treeVars, diffVars, copyVars, runVars, parVars>>

\* fs::symlink_metadata(target_path) and file_size = target_metadata.len().
SymlinkMetadata ==
    /\ Within("symlink_metadata")
    /\ \E ok \in BOOLEAN :
        IF ok /\ tcall.relative_path \in DOMAIN dest_items
        THEN tcall' = [tcall EXCEPT !.pc = "rename",
                           !.target = dest_items[tcall.relative_path],
                           !.file_size = dest_items[tcall.relative_path].size]
        ELSE TrashFails("symlink_metadata")
    /\ UNCHANGED <<clock, dest_items, trash, trash_log, next_item>>
    /\ UNCHANGED <<execVars, planVars, treeVars, diffVars, copyVars, runVars, parVars>>

\* match fs::rename(target_path, &trash_file_path): rename replaces a file
\* or symlink that is at the new path.
TrashRename ==
    /\ Within("rename")
    /\ \E outcome \in {"Ok", "CrossesDevices", "Err"} :
        IF outcome = "Ok" /\ tcall.relative_path \in DOMAIN dest_items
        THEN /\ trash' = (TrashFile(tcall) :> dest_items[tcall.relative_path]) @@ trash
             /\ dest_items' = Without(dest_items, tcall.relative_path)
             /\ tcall' = [tcall EXCEPT !.pc = "manifest_read", !.moved = TRUE]
        ELSE IF outcome = "CrossesDevices"
             THEN /\ tcall' = [tcall EXCEPT !.pc = "fallback", !.crossed = TRUE]
                  /\ UNCHANGED <<dest_items, trash>>
             ELSE /\ TrashFails("rename")
                  /\ UNCHANGED <<dest_items, trash>>
    /\ UNCHANGED <<clock, trash_log, next_item>>
    /\ UNCHANGED <<execVars, planVars, treeVars, diffVars, copyVars, runVars, parVars>>

dest_after_failed_copy_unlinked(items, relative_path) == Without(items, relative_path)

\* `?` on the result of the copy: the call returns and the unlink is not
\* reached.
dest_after_failed_copy(items, relative_path) == items

\* The CrossesDevices arm up to the unlink: read_link and create_symlink for
\* a symlink (create_symlink fails when the path is taken), copy_file_atomic
\* for a file (its rename replaces what is at the path).
Fallback ==
    /\ Within("fallback")
    /\ \E outcome \in {"Ok", "read_link", "create_symlink", "copy_file_atomic"} :
        IF tcall.relative_path \notin DOMAIN dest_items
        THEN /\ outcome = "Ok"
             /\ TrashFails(IF tcall.target.kind = "symlink"
                           THEN "read_link" ELSE "copy_file_atomic")
             /\ UNCHANGED <<dest_items, trash>>
        ELSE IF tcall.target.kind = "symlink"
        THEN /\ outcome \in {"Ok", "read_link", "create_symlink"}
             /\ IF outcome = "Ok" /\ ~exists_not_following_links(TrashFile(tcall))
                THEN /\ trash' = (TrashFile(tcall) :> tcall.target) @@ trash
                     /\ TrashGoes("remove_file")
                ELSE /\ TrashFails(IF outcome = "Ok" THEN "create_symlink" ELSE outcome)
                     /\ UNCHANGED trash
             /\ UNCHANGED dest_items
        ELSE /\ outcome \in {"Ok", "copy_file_atomic"}
             /\ IF outcome = "Ok"
                THEN /\ trash' = (TrashFile(tcall) :> tcall.target) @@ trash
                     /\ TrashGoes("remove_file")
                     /\ UNCHANGED dest_items
                ELSE /\ TrashFails("copy_file_atomic")
                     /\ dest_items' = dest_after_failed_copy(dest_items,
                                                             tcall.relative_path)
                     /\ UNCHANGED trash
    /\ UNCHANGED <<clock, trash_log, next_item>>
    /\ UNCHANGED <<execVars, planVars, treeVars, diffVars, copyVars, runVars, parVars>>

\* fs::remove_file(target_path), the last step of the CrossesDevices arm.
RemoveFile ==
    /\ Within("remove_file")
    /\ \E ok \in BOOLEAN :
        IF ok /\ tcall.relative_path \in DOMAIN dest_items
        THEN /\ dest_items' = Without(dest_items, tcall.relative_path)
             /\ tcall' = [tcall EXCEPT !.pc = "manifest_read", !.moved = TRUE]
        ELSE /\ TrashFails("remove_file")
             /\ UNCHANGED dest_items
    /\ UNCHANGED <<clock, trash, trash_log, next_item>>
    /\ UNCHANGED <<execVars, planVars, treeVars, diffVars, copyVars, runVars, parVars>>

\* let mut manifest = if manifest_path.exists() { read, parse } else { new }.
ManifestRead ==
    /\ Within("manifest_read")
    /\ \E ok \in BOOLEAN :
        IF exists(ManifestPath(tcall))
        THEN IF ~ok
             THEN TrashFails("read_to_string")
             ELSE IF ~trash[ManifestPath(tcall)].parses
                  THEN TrashFails("from_str")
                  ELSE tcall' = [tcall EXCEPT !.pc = "manifest_write",
                           !.manifest = [files |-> trash[ManifestPath(tcall)].json]]
        ELSE /\ ok
             /\ tcall' = [tcall EXCEPT !.pc = "manifest_write",
                                       !.manifest = TrashManifest_new]
    /\ UNCHANGED <<clock, dest_items, trash, trash_log, next_item>>
    /\ UNCHANGED <<execVars, planVars, treeVars, diffVars, copyVars, runVars, parVars>>

NewRecord(call) ==
    DeletedFile(call.relative_path, call.trash_relative_path, clock, call.file_size)

\* manifest.add_file(..), fs::write(&manifest_path, ..) and Ok(()).
ManifestWrite ==
    /\ Within("manifest_write")
    /\ LET manifest == add_file(tcall.manifest, NewRecord(tcall))
       IN \E outcome \in {"Ok", "Err", "ErrTruncated"} :
            IF outcome = "Ok"
            THEN /\ trash' = (ManifestPath(tcall) :> ManifestFile(manifest)) @@ trash
                 /\ tcall' = [tcall EXCEPT !.pc = "returned", !.result = TrashOk,
                                           !.manifest = manifest]
                 /\ trash_log' = Append(trash_log,
                        [snapshot |-> tcall.timestamp, record |-> NewRecord(tcall)])
            ELSE /\ trash' = IF outcome = "Err" THEN trash
                             ELSE (ManifestPath(tcall) :> TruncatedFile) @@ trash
                 /\ TrashFails("write")
                 /\ UNCHANGED trash_log
    /\ UNCHANGED <<clock, dest_items, next_item>>
    /\ UNCHANGED <<execVars, planVars, treeVars, diffVars, copyVars, runVars, parVars>>

NextTrash ==
    \/ Tick
    \/ Appear
    \/ MoveToTrash
    \/ TrashCreateDirAll
    \/ SymlinkMetadata
    \/ TrashRename
    \/ Fallback
    \/ RemoveFile
    \/ ManifestRead
    \/ ManifestWrite

SpecTrash == InitSpecTrash /\ [][NextTrash]_vars

(***************************************************************************)
(* Properties of move_to_trash (SpecTrash)                                 *)
(***************************************************************************)
TrashReturned(step) == tcall.pc = "returned" /\ tcall.result = TrashErr(step)
StillUnderDest(id) == \E relpath \in DOMAIN dest_items : dest_items[relpath].id = id
InTrash(id) == \E path \in DOMAIN trash : trash[path].id = id

C24_NeverOverwrites ==
    \A id \in 1..next_item : ~StillUnderDest(id) => InTrash(id)

ParsedManifest(snapshot) ==
    LET path == trash_join(snapshot, ManifestName)
    IN IF path \in DOMAIN trash /\ trash[path].parses THEN trash[path].json ELSE <<>>

RECURSIVE LoggedRecords(_, _)
LoggedRecords(log, snapshot) ==
    IF log = <<>> THEN <<>>
    ELSE IF Head(log).snapshot = snapshot
         THEN <<Head(log).record>> \o LoggedRecords(Tail(log), snapshot)
         ELSE LoggedRecords(Tail(log), snapshot)

\* C25: between calls, as long as every call so far has returned Ok, the
\* manifest of each snapshot holds exactly the records of the calls made in
\* that snapshot, one per call, in the order of the calls, so the manifests
\* hold as many records as there were calls.
C25_ManifestAppendOnly ==
    (Between /\ tcall.failures = 0) =>
        \A snapshot \in 0..MaxClock :
            ParsedManifest(snapshot) = LoggedRecords(trash_log, snapshot)

(***************************************************************************)
(* run (src/src/commands/sync.rs) on a directory source.  SpecRun makes    *)
(* calls of run one after the other on the same configuration: scan the    *)
(* source, scan the destination, plan, execute_plan.  rfs holds the files  *)
(* and symlinks under each root; a directory is there when something is    *)
(* beneath it.  The source is not changed by anything but run.             *)
(***************************************************************************)
MaxRuns == 2

\* The path component ".kopy_trash", which sorts before the other names.
KopyTrash == 0
\* The time of the calls, later than the mtime of every file there is.
Now == 2

RunPaths == {<<1>>, <<1, 1>>, <<KopyTrash, 1>>}

RegularFile(mtime, digest) ==
    [kind |-> "file", size |-> 1, mtime |-> mtime, digest |-> HashOk(digest),
     target |-> NoPath]

\* A symlink; digest is what reading through the link gives: the digest of
\* the file it leads to, or an error when it leads to no file.
Symlink(mtime, through) ==
    [kind |-> "symlink", size |-> 1, mtime |-> mtime, digest |-> through,
     target |-> <<2>>]

SrcNodes(path) ==
    IF path = <<1>>
    THEN {RegularFile(1, 1), Symlink(1, HashErr), Symlink(1, HashOk(1))}
    ELSE {RegularFile(1, 1)}

DestNodes(path) ==
    IF path = <<1>>
    THEN {RegularFile(1, 1), RegularFile(0, 2), Symlink(0, HashErr)}
    ELSE {RegularFile(0, 2)}

\* The directories of files a filesystem can hold, of at most
\* MaxTreeEntries files.
Dirs(Nodes(_)) ==
    UNION {{f \in [S -> UNION {Nodes(path) : path \in S}] :
                \A path \in S : f[path] \in Nodes(path)} :
           S \in {T \in SUBSET RunPaths :
                    /\ Cardinality(T) <= MaxTreeEntries
                    /\ \A a, b \in T : ~IsStrictAncestor(a, b)}}

\* Config, as far as run, the scanner, the diff engine and the executor
\* read it.
RunConfig(destination, delete_mode, checksum_mode, dry_run) ==
    [source |-> "src", destination |-> destination, delete_mode |-> delete_mode,
     checksum_mode |-> checksum_mode, dry_run |-> dry_run]

ConfigOk == "Ok"
ConfigError == "Config"

\* Config::validate, as far as it compares the two roots.
validate(cfg) ==
    IF cfg.source = cfg.destination THEN ConfigError ELSE ConfigOk

DiskOf(f) ==
    [root \in {"src", "dest"} |-> [path \in DOMAIN f[root] |-> f[root][path].digest]]

NewRun(no, clean) ==
    [pc |-> "scan_source", no |-> no, idx |-> 0, failed |-> 0, invoked |-> FALSE,
     scanned |-> FALSE, scan_failed |-> FALSE, planned |-> FALSE,
     result |-> "none", clean_before |-> clean]

InitSpecRun ==
    /\ IdleExecPlanTree
    /\ IdleCopy
    /\ IdleTrash
    /\ IdlePar
    /\ cmp_src = NoEntry /\ cmp_dest = NoEntry /\ cmp_action = NoAction
    /\ src_tree = <<>> /\ dest_tree = <<>>
    /\ config \in {RunConfig(d, m, c, dry) : d \in {"src", "dest"}, m \in DeleteModes,
                                             c \in BOOLEAN, dry \in BOOLEAN}
    /\ \E sfs \in Dirs(SrcNodes), dfs \in Dirs(DestNodes) :
        /\ config.destination = config.source => dfs = <<>>
        /\ rfs = [src |-> sfs, dest |-> dfs]
    /\ rfs_start = rfs
    /\ disk = DiskOf(rfs)
    /\ run_state = NewRun(1, FALSE)

RunAt(step) == run_state.pc = step
RunReturns(res) == run_state' = [run_state EXCEPT !.pc = "returned", !.result = res]

\* is_destination_internal_trash that rejects nothing.
is_destination_internal_trash_never(root_path, cfg, relative_path) == FALSE

is_destination_internal_trash(root_path, cfg, relative_path) ==
    root_path = cfg.destination /\ relative_path[1] = KopyTrash

EntryOf(path, node) ==
    IF node.kind = "symlink"
    THEN FileEntry_new_symlink(path, node.size, node.mtime, node.target)
    ELSE FileEntry_new(path, node.size, node.mtime)

\* The entries of the tree scan_directory returns.
scan_directory(root_path, cfg) ==
    [path \in {q \in DOMAIN rfs[root_path] :
                  ~is_destination_internal_trash(root_path, cfg, q)}
        |-> EntryOf(path, rfs[root_path][path])]

\* let src_tree = scan_with_mode(&config.source, ..)?
RunScanSource ==
    /\ RunAt("scan_source")
    /\ \E ok \in BOOLEAN :
        IF ok
        THEN /\ src_tree' = scan_directory(config.source, config)
             /\ run_state' = [run_state EXCEPT !.pc = "scan_destination",
                                               !.scanned = TRUE]
        ELSE /\ run_state' = [run_state EXCEPT !.pc = "returned", !.result = "Err",
                                               !.scan_failed = TRUE]
             /\ UNCHANGED src_tree
    /\ UNCHANGED <<rfs, rfs_start, config, disk, compareVars, dest_tree>>
    /\ UNCHANGED <<execVars, planVars, treeVars, copyVars, trashVars, parVars>>

\* config.destination.exists(): a root with nothing under it gives the same
\* empty tree whether it exists or not.
root_exists(root) == DOMAIN rfs[root] # {}

RunScanDestination ==
    /\ RunAt("scan_destination")
    /\ \E ok \in BOOLEAN :
        IF ~root_exists(config.destination)
        THEN /\ ok
             /\ dest_tree' = <<>>
             /\ run_state' = [run_state EXCEPT !.pc = "plan"]
        ELSE IF ok
             THEN /\ dest_tree' = scan_directory(config.destination, config)
                  /\ run_state' = [run_state EXCEPT !.pc = "plan"]
             ELSE /\ run_state' = [run_state EXCEPT !.pc = "returned",
                                !.result = "Err", !.scan_failed = TRUE]
                  /\ UNCHANGED dest_tree
    /\ UNCHANGED <<rfs, rfs_start, config, disk, compareVars, src_tree>>
    /\ UNCHANGED <<execVars, planVars, treeVars, copyVars, trashVars, parVars>>

has_executable_actions(plan_actions) ==
    \E i \in DOMAIN plan_actions : plan_actions[i].kind # "Skip"

returns_before_execute_never(cfg, plan_actions) == FALSE

\* if config.dry_run { .. return Ok(()) };
\* if !has_executable_actions(&plan) { .. return Ok(()) }
returns_before_execute(cfg, plan_actions) ==
    cfg.dry_run \/ ~has_executable_actions(plan_actions)

\* generate_sync_plan and the two early returns of run.
RunPlan ==
    /\ RunAt("plan")
    /\ \E src_order \in Orders(DOMAIN src_tree), dest_order \in Orders(DOMAIN dest_tree) :
        LET new_plan == generate_sync_plan(src_order, dest_order)
        IN /\ actions' = new_plan.actions
           /\ pstats' = new_plan.stats
           /\ plan_op' = "generated"
           /\ IF returns_before_execute(config, new_plan.actions)
              THEN run_state' = [run_state EXCEPT !.pc = "returned", !.result = "Ok",
                                                  !.planned = TRUE]
              ELSE run_state' = [run_state EXCEPT !.pc = "execute", !.idx = 1,
                                                  !.planned = TRUE, !.invoked = TRUE]
    /\ UNCHANGED <<rfs, rfs_start, diffVars>>
    /\ UNCHANGED <<execVars, treeVars, copyVars, trashVars, parVars>>

\* q is path or is beneath it.
Beneath(path, q) == q = path \/ IsStrictAncestor(path, q)
is_dir(dir, path) == path = <<>> \/ \E q \in DOMAIN dir : IsStrictAncestor(path, q)
lstat_ok(dir, path) == path \in DOMAIN dir \/ is_dir(dir, path)

\* fs::create_dir_all(parent) fails when a file or symlink is in the way.
create_dir_all_ok(dir, path) ==
    \A i \in 1..(Len(path) - 1) : SubSeq(path, 1, i) \notin DOMAIN dir

\* remove_path_any: remove_dir_all for a directory, remove_file otherwise.
remove_path_any(dir, path) ==
    [q \in {r \in DOMAIN dir : ~Beneath(path, r)} |-> dir[q]]

FsResult(ok, dir) == [ok |-> ok, dir |-> dir]

\* copy_file_atomic, as one step: the rename fails on a directory.
CopyFileAtomic(src_dir, dest_dir, path) ==
    IF /\ path \in DOMAIN src_dir
       /\ create_dir_all_ok(dest_dir, path)
       /\ ~is_dir(dest_dir, path)
    THEN FsResult(TRUE, (path :> src_dir[path]) @@ dest_dir)
    ELSE FsResult(FALSE, dest_dir)

\* copy_symlink: whatever is at the destination path is removed first; the
\* new symlink has the target of the entry and the time of its creation.
copy_symlink(src_dir, dest_dir, entry) ==
    IF ~create_dir_all_ok(dest_dir, entry.path)
    THEN FsResult(FALSE, dest_dir)
    ELSE LET cleared == IF lstat_ok(dest_dir, entry.path)
                        THEN remove_path_any(dest_dir, entry.path)
                        ELSE dest_dir
             through == IF entry.path \in DOMAIN src_dir
                        THEN src_dir[entry.path].digest ELSE HashErr
             link == [Symlink(Now, through) EXCEPT !.target = entry.symlink_target]
         IN FsResult(TRUE, (entry.path :> link) @@ cleared)

\* Where move_to_trash puts what is at path or beneath it.
Trashed(dir, path, snapshot) ==
    LET moved == {q \in DOMAIN dir : Beneath(path, q)}
        kept == DOMAIN dir \ moved
        TrashPath(q) == <<KopyTrash, snapshot>> \o q
    IN [r \in kept \cup {TrashPath(q) : q \in moved} |->
            IF r \in kept THEN dir[r]
            ELSE dir[CHOOSE q \in moved : TrashPath(q) = r]]

\* execute_delete, the snapshot being the second of the call.
execute_delete(dir, path, cfg, snapshot) ==
    CASE cfg.delete_mode = "None" -> FsResult(TRUE, dir)
      [] cfg.delete_mode = "Trash" ->
            IF ~lstat_ok(dir, path) THEN FsResult(TRUE, dir)
            ELSE FsResult(TRUE, Trashed(dir, path, snapshot))
      [] cfg.delete_mode = "Permanent" ->
            IF lstat_ok(dir, path) THEN FsResult(TRUE, remove_path_any(dir, path))
            ELSE FsResult(TRUE, dir)

\* execute_action when no system call fails for a reason outside the model.
execute_action_fs(action, cfg, snapshot) ==
    LET src_dir == rfs[cfg.source]
        dest_dir == rfs[cfg.destination]
    IN CASE action.kind \in {"CopyNew", "Overwrite"} ->
                IF action.entry.is_symlink
                THEN copy_symlink(src_dir, dest_dir, action.entry)
                ELSE CopyFileAtomic(src_dir, dest_dir, action.entry.path)
         [] action.kind = "Delete" ->
                execute_delete(dest_dir, action.path, cfg, snapshot)
         [] action.kind = "Skip" -> FsResult(TRUE, dest_dir)
         [] OTHER -> FsResult(FALSE, dest_dir)

\* One round of the loop of execute_plan.
RunExecuteAction ==
    /\ RunAt("execute")
    /\ run_state.idx <= Len(actions)
    /\ \E io_ok \in BOOLEAN :
        LET done == execute_action_fs(actions[run_state.idx], config, run_state.no + 1)
        IN IF io_ok
           THEN /\ rfs' = [rfs EXCEPT ![config.destination] = done.dir]
                /\ run_state' = [run_state EXCEPT !.idx = @ + 1,
                       !.failed = IF done.ok THEN @ ELSE @ + 1]
           ELSE /\ rfs' = rfs
                /\ run_state' = [run_state EXCEPT !.idx = @ + 1, !.failed = @ + 1]
    /\ disk' = DiskOf(rfs')
    /\ UNCHANGED <<rfs_start, config, compareVars, syncVars>>
    /\ UNCHANGED <<execVars, planVars, treeVars, copyVars, trashVars, parVars>>

\* The end of execute_plan and `result?; Ok(())`.
RunReturn ==
    /\ RunAt("execute")
    /\ run_state.idx > Len(actions)
    /\ RunReturns(IF run_state.failed = 0 THEN "Ok" ELSE "Err")
    /\ UNCHANGED <<rfs, rfs_start, diffVars>>
    /\ UNCHANGED <<execVars, planVars, treeVars, copyVars, trashVars, parVars>>

\* The first call made every action of a plan it executed succeed.
CleanRun ==
    run_state.result = "Ok" /\ ~config.dry_run /\ run_state.no = 1

\* run is called again, with the same configuration.
RunAgain ==
    /\ RunAt("returned")
    /\ run_state.no < MaxRuns
    /\ run_state' = NewRun(run_state.no + 1, CleanRun)
    /\ rfs_start' = rfs
    /\ UNCHANGED <<rfs, diffVars>>
    /\ UNCHANGED <<execVars, planVars, treeVars, copyVars, trashVars, parVars>>

NextRun ==
    \/ RunScanSource
    \/ RunScanDestination
    \/ RunPlan
    \/ RunExecuteAction
    \/ RunReturn
    \/ RunAgain

SpecRun == InitSpecRun /\ [][NextRun]_vars

(***************************************************************************)
(* Properties of run (SpecRun)                                             *)
(***************************************************************************)
SecondPlanMade == run_state.no = 2 /\ run_state.planned

\* C21: when the first call of run returned Ok after executing its plan, the
\* plan of the second call, on the unchanged source, holds nothing but Skip
\* actions.
C21_IdempotentSync ==
    (SecondPlanMade /\ run_state.clean_before) =>
        \A i \in DOMAIN actions : actions[i].kind = "Skip"

\* C22: with delete_mode None, whatever the destination held at a path the
\* source does not have when run was called is still there, unchanged.
C22_NonDestructiveDefault ==
    (config.delete_mode = "None" /\ config.destination # config.source) =>
        \A path \in DOMAIN rfs_start.dest \ DOMAIN rfs.src :
            /\ path \in DOMAIN rfs.dest
            /\ rfs.dest[path] = rfs_start.dest[path]

HoldsTrash(dir) == \E path \in DOMAIN dir : path[1] = KopyTrash

C30_ValidatesFirst ==
    validate(config) = ConfigError =>
        /\ ~run_state.scanned
        /\ ~run_state.planned
        /\ (RunAt("returned") /\ ~run_state.scan_failed)
              => run_state.result = ConfigError

(***************************************************************************)
(* generate_sync_plan: what the source still has (SpecSync)                *)
(***************************************************************************)
CommonPaths == DOMAIN src_tree \cap DOMAIN dest_tree

\* C39: for two trees that a filesystem can hold, and any delete mode, no
\* Delete of the plan has a path that is, or is an ancestor of, a path that
\* both the source tree and the destination tree hold.
C39_KeepsWhatSourceHas ==
    (Generated /\ FsConsistent(src_tree) /\ FsConsistent(dest_tree)) =>
        \A i \in DeleteIndexes : \A path \in CommonPaths :
            /\ actions[i].path # path
            /\ ~IsStrictAncestor(actions[i].path, path)

\* A plan with a conflict Delete, made for trees that share a path.
C39_Witness ==
    /\ Generated /\ config.delete_mode = "Trash"
    /\ DOMAIN src_tree = {<<1, 1>>, <<2>>}
    /\ DOMAIN dest_tree = {<<1>>, <<2>>}
    /\ DeleteIndexes # {}

(***************************************************************************)
(* move_to_trash: what an error leaves behind (SpecTrash)                  *)
(***************************************************************************)
BeforeTheMove == {"create_dir_all", "symlink_metadata"}
TheMove == {"rename", "read_link", "create_symlink", "copy_file_atomic", "remove_file"}
TheManifest == {"read_to_string", "from_str", "write"}

\* The step by which the call returns the error of one of `steps` leaves
\* the target at its original path: an error from before the l-stat leaves
\* everything under dest_root as it was, a later one leaves there what the
\* l-stat found.
ErrorKeepsTarget(steps) ==
    (/\ tcall.pc # "returned" /\ tcall'.pc = "returned"
     /\ tcall'.result # TrashOk
     /\ tcall'.result.step \in steps) =>
        IF tcall'.result.step \in BeforeTheMove
        THEN dest_items' = dest_items
        ELSE /\ tcall.relative_path \in DOMAIN dest_items'
             /\ dest_items'[tcall.relative_path] = tcall.target

\* C38 as claimed: whenever move_to_trash returns an error, at any step up
\* to the write of the manifest, the target is still at its original path.
C38_ErrorKeepsTarget_Claimed ==
    [][ErrorKeepsTarget(BeforeTheMove \cup TheMove \cup TheManifest)]_vars

\* C38: whenever move_to_trash returns an error from a step up to the unlink
\* of the cross-device fallback (creating the trash parent, l-stat, rename,
\* cross-device copy, unlink), the target is still at its original path.
C38_ErrorKeepsTarget ==
    [][ErrorKeepsTarget(BeforeTheMove \cup TheMove)]_vars

\* The unlink of the cross-device fallback failed: the call has returned
\* the error, the target is at its original path and a copy is in the trash.
C38_Witness ==
    /\ tcall.pc = "returned" /\ tcall.result = TrashErr("remove_file")
    /\ tcall.crossed
    /\ tcall.relative_path \in DOMAIN dest_items
    /\ TrashFile(tcall) \in DOMAIN trash

(***************************************************************************)
(* Executor: statistics (Spec)                                             *)
(***************************************************************************)
\* The sum of bytes_copied over the ActionSuccess events of s.
RECURSIVE SuccessBytes(_)
SuccessBytes(s) ==
    IF s = <<>> THEN 0
    ELSE (IF Head(s).type = "ActionSuccess" THEN Head(s).bytes_copied ELSE 0)
         + SuccessBytes(Tail(s))

\* Final statistics: every action is counted once, as completed or failed,
\* and bytes_copied is what the ActionSuccess events add up to.
FinalStats(st) ==
    /\ st.total_actions = Len(plan)
    /\ st.completed_actions + st.failed_actions = st.total_actions
    /\ st.bytes_copied = SuccessBytes(events)

CopiesNoBytes(a) ==
    \/ a.kind \in {"Skip", "Delete"}
    \/ a.kind \in {"CopyNew", "Overwrite"} /\ a.entry.is_symlink

\* C35: in execute_plan, and in execute_plan_parallel when no worker
\* panics, completed_actions + failed_actions never exceeds total_actions;
\* the stats Complete carries and the stats returned on success count every
\* action of the plan once and have the bytes of the ActionSuccess events
\* as bytes_copied; a Skip, a Delete and the copy of a symlink succeed with
\* 0 bytes.
C35_StatsInvariant ==
    (mode = "seq" \/ (mode = "par" /\ NoWorkerPanicked)) =>
        /\ stats.completed_actions + stats.failed_actions <= stats.total_actions
        /\ \A p \in CompletePos : FinalStats(events[p].stats)
        /\ result.tag = "Ok" => FinalStats(result.stats)
        /\ \A p \in DOMAIN events :
              (events[p].type = "ActionSuccess" /\ CopiesNoBytes(plan[events[p].index]))
                  => events[p].bytes_copied = 0

\* A parallel run has returned Ok for a plan that copies a file and a
\* symlink and deletes a path.
C35_Witness ==
    /\ mode = "par" /\ pc = "done" /\ result.tag = "Ok"
    /\ \E i, j, k \in 1..Total :
        /\ plan[i] = CopyNew(SmallEntry)
        /\ plan[j] = CopyNew(SymlinkEntry)
        /\ plan[k].kind = "Delete"
    /\ result.stats.bytes_copied = LARGE_TRANSFER_THRESHOLD_BYTES

(***************************************************************************)
(* Executor: execute_plan as a function of the outcomes (Spec)             *)
(***************************************************************************)
\* The outcome execute_action had for plan index i, as its terminal event
\* tells it.
OutcomeOf(i) ==
    LET e == events[CHOOSE p \in TermPos(i) : TRUE]
    IN IF e.type = "ActionSuccess" THEN Ok(e.bytes_copied) ELSE Err(e.error)

\* The loop of execute_plan from plan index i on, when execute_action has
\* the outcome outcome[i] for plan index i.
RECURSIVE execute_plan_from(_, _, _, _)
execute_plan_from(i, st, errs, outcome) ==
    IF i > Len(plan)
    THEN [stats |-> st, result |-> FinalResult(st, errs)]
    ELSE execute_plan_from(i + 1, StatsAfter(st, outcome[i]),
                           ErrorsAfter(errs, plan[i], outcome[i]), outcome)

execute_plan(outcome) == execute_plan_from(1, NewStats(Len(plan)), <<>>, outcome)

Outcomes == [i \in 1..Total |-> OutcomeOf(i)]

\* C36: when no worker panics, execute_plan_parallel ends with the
\* ExecutionStats and the Ok / Err status that execute_plan has for the same
\* plan and the same outcome of every action, whatever the number of threads
\* and the order in which the workers finish; execute_plan itself returns
\* what the function gives.
C36_SeqParEquivalence ==
    (mode # "off" /\ pc = "done" /\ NoWorkerPanicked) =>
        /\ stats = execute_plan(Outcomes).stats
        /\ result.tag = execute_plan(Outcomes).result.tag
        /\ mode = "seq" => result = execute_plan(Outcomes).result

\* A parallel run in which the second worker was joined before the first
\* and an action failed.
C36_Witness ==
    /\ mode = "par" /\ pc = "done" /\ NoWorkerPanicked /\ Total >= 3
    /\ FailedIndexes # {}
    /\ result.tag = "Err"
    /\ \E p \in TermPos(2) : \E q \in TermPos(1) : p < q

(***************************************************************************)
(* Executor: deletions (Spec)                                              *)
(***************************************************************************)
\* The plan indexes of the Deletes that have started and not ended.
ExecutingDeletes ==
    {i \in 1..Total : /\ plan[i].kind = "Delete"
                      /\ StartPos(i) # {}
                      /\ TermPos(i) = {}}

\* C37: in both executors at most one Delete is executing at any time, and
\* while a Delete executes no spawned worker thread is left unjoined.
C37_DeletesNeverConcurrent ==
    mode # "off" =>
        /\ Cardinality(ExecutingDeletes) <= 1
        /\ ExecutingDeletes # {} => Unjoined = {}

\* The parallel executor runs a Delete after joining two workers.
C37_Witness ==
    /\ mode = "par" /\ pc = "barrier" /\ Current.kind = "Delete"
    /\ ExecutingDeletes = {Index}
    /\ Cardinality(joined) = 2

(***************************************************************************)
(* run: the trash of the destination (SpecRun)                             *)
(***************************************************************************)
UnderTrash(path) == path # <<>> /\ path[1] = KopyTrash
TrashedItems(dir) == {path \in DOMAIN dir : UnderTrash(path)}

\* The step executes a Delete of the plan.
DeleteStep ==
    /\ RunAt("execute") /\ run_state.idx <= Len(actions)
    /\ actions[run_state.idx].kind = "Delete"
    /\ run_state'.idx = run_state.idx + 1

TrashNeverReplanned ==
    /\ \A path \in DOMAIN dest_tree' : ~UnderTrash(path)
    /\ run_state'.planned =>
          \A i \in DOMAIN actions' :
              actions'[i].kind = "Delete" => ~UnderTrash(actions'[i].path)
    /\ DeleteStep =>
          \A path \in TrashedItems(rfs[config.destination]) :
              /\ path \in DOMAIN rfs'[config.destination]
              /\ rfs'[config.destination][path] = rfs[config.destination][path]

MaxScanThreads == 2

\* What the traversal yields for a path, and what the system calls the
\* closure makes on it answer.
ScanNode(path, kind, size) ==
    [path |-> path, kind |-> kind, size |-> size, included |-> TRUE,
     metadata_ok |-> TRUE, read_link_ok |-> TRUE, mtime_ok |-> TRUE]

\* The items a path may stand for; <<>> is no item.
ScanNodes(path) ==
    CASE path = <<1>> ->
           {ScanNode(path, "file", 1), ScanNode(path, "symlink", 1),
            [ScanNode(path, "file", 1) EXCEPT !.mtime_ok = FALSE],
            ScanNode(path, "dir", 0)}
      [] path = <<2>> ->
           {ScanNode(path, "file", 2),
            [ScanNode(path, "symlink", 1) EXCEPT !.read_link_ok = FALSE],
            [ScanNode(path, "file", 2) EXCEPT !.metadata_ok = FALSE],
            [ScanNode(path, "file", 2) EXCEPT !.included = FALSE],
            ScanNode(path, "other", 0),
            ScanNode(path, "walk_error", 0)}
      [] OTHER -> {ScanNode(path, "file", 1)}

ScanPaths == <<(<<KopyTrash, 1>>), <<1>>, <<2>>>>

\* The traversals: each path of ScanPaths, in order, with one of its items
\* or without any.
RECURSIVE Traversals(_)
Traversals(paths) ==
    IF paths = <<>> THEN {<<>>}
    ELSE LET rest == Traversals(Tail(paths))
         IN rest \cup {<<node>> \o t : node \in ScanNodes(Head(paths)), t \in rest}

\* config.threads.max(1)
thread_count == Max(scan_in.threads, 1)
WalkThreads == 1..thread_count

CollectedScan_default == [files |-> <<>>, total_dirs |-> 0, fatal_error |-> FALSE]
ProgressState_default == [files |-> 0, bytes |-> 0, holder |-> 0]
ThreadIdle == [pc |-> "idle", item |-> 0]
ScanRunning == [tag |-> "Running"]
ScanErr == [tag |-> "Err"]

InitSpecScan ==
    /\ IdleExecPlanTree
    /\ IdleCopy /\ IdleTrash /\ IdleRun /\ IdlePool
    /\ config = RunConfig("dest", "None", FALSE, FALSE)
    /\ disk = NoDisk
    /\ cmp_src = NoEntry /\ cmp_dest = NoEntry /\ cmp_action = NoAction
    /\ src_tree = <<>> /\ dest_tree = <<>>
    /\ scan_in \in {[dir |-> d, root |-> r, threads |-> n, on_progress |-> cb] :
                        d \in Traversals(ScanPaths), r \in {"src", "dest"},
                        n \in 0..MaxScanThreads, cb \in BOOLEAN}
    /\ walk = [todo |-> DOMAIN scan_in.dir, quit |-> FALSE,
               at |-> [t \in WalkThreads |-> ThreadIdle]]
    /\ collected = CollectedScan_default
    /\ progress_state = ProgressState_default
    /\ cb_log = <<>>
    /\ scan_result = ScanRunning

\* should_include_path, by its answer for the path of the item.
should_include_path(node) == node.included

\* FileEntry::new_symlink or FileEntry::new, as both scanners call them.
ScanEntry(node) ==
    IF node.kind = "symlink"
    THEN FileEntry_new_symlink(node.path, node.size, 1, <<2>>)
    ELSE FileEntry_new(node.path, node.size, 1)

\* closure_branch without the test of is_destination_internal_trash.
closure_branch_keeping_trash(node) ==
    IF node.kind = "walk_error" THEN "idle"
    ELSE IF ~should_include_path(node) THEN "idle"
    ELSE IF node.kind = "dir" THEN "count_dir"
    ELSE IF node.kind \notin {"file", "symlink"} THEN "idle"
    ELSE IF ~node.metadata_ok THEN "idle"
    ELSE IF node.kind = "symlink" /\ ~node.read_link_ok THEN "idle"
    ELSE IF ~node.mtime_ok THEN "fatal"
    ELSE IF scan_in.on_progress THEN "progress"
    ELSE "push"

\* Where the closure goes for an item once it has seen no fatal error:
\* "idle" is WalkState::Continue without an entry.
closure_branch(node) ==
    IF node.kind = "walk_error" THEN "idle"
    ELSE IF ~should_include_path(node) THEN "idle"
    ELSE IF is_destination_internal_trash(scan_in.root, config, node.path) THEN "idle"
    ELSE IF node.kind = "dir" THEN "count_dir"
    ELSE IF node.kind \notin {"file", "symlink"} THEN "idle"
    ELSE IF ~node.metadata_ok THEN "idle"
    ELSE IF node.kind = "symlink" /\ ~node.read_link_ok THEN "idle"
    ELSE IF ~node.mtime_ok THEN "fatal"
    ELSE IF scan_in.on_progress THEN "progress"
    ELSE "push"

ThreadAt(t, step) == walk.at[t].pc = step
ThreadGoes(t, step) == walk' = [walk EXCEPT !.at[t].pc = step]
ThreadReturns(t) == walk' = [walk EXCEPT !.at[t] = ThreadIdle]
ItemOf(t) == scan_in.dir[walk.at[t].item]

\* The walker calls the closure of thread t on an item no thread has had.
Visit(t) ==
    /\ scan_result = ScanRunning
    /\ ThreadAt(t, "idle") /\ ~walk.quit
    /\ \E i \in walk.todo :
        walk' = [walk EXCEPT !.todo = @ \ {i}, !.at[t] = [pc |-> "called", item |-> i]]
    /\ UNCHANGED <<scan_in, collected, progress_state, cb_log, scan_result>>
    /\ UNCHANGED <<execVars, planVars, treeVars, diffVars, copyVars, trashVars, runVars, poolVars>>

\* collected.lock(); if scan.fatal_error.is_some() { return Quit }; drop(scan);
\* and the closure up to its next lock or return.
CheckFatal(t) ==
    /\ ThreadAt(t, "called")
    /\ IF collected.fatal_error
       THEN walk' = [walk EXCEPT !.quit = TRUE, !.at[t] = ThreadIdle]
       ELSE IF closure_branch(ItemOf(t)) = "idle"
            THEN ThreadReturns(t)
            ELSE ThreadGoes(t, closure_branch(ItemOf(t)))
    /\ UNCHANGED <<scan_in, collected, progress_state, cb_log, scan_result>>
    /\ UNCHANGED <<execVars, planVars, treeVars, diffVars, copyVars, trashVars, runVars, poolVars>>

\* scan.total_dirs += 1; return Continue
CountDir(t) ==
    /\ ThreadAt(t, "count_dir")
    /\ collected' = [collected EXCEPT !.total_dirs = @ + 1]
    /\ ThreadReturns(t)
    /\ UNCHANGED <<scan_in, progress_state, cb_log, scan_result>>
    /\ UNCHANGED <<execVars, planVars, treeVars, diffVars, copyVars, trashVars, runVars, poolVars>>

\* scan.fatal_error = Some(..); return Quit
SetFatal(t) ==
    /\ ThreadAt(t, "fatal")
    /\ collected' = [collected EXCEPT !.fatal_error = TRUE]
    /\ walk' = [walk EXCEPT !.quit = TRUE, !.at[t] = ThreadIdle]
    /\ UNCHANGED <<scan_in, progress_state, cb_log, scan_result>>
    /\ UNCHANGED <<execVars, planVars, treeVars, diffVars, copyVars, trashVars, runVars, poolVars>>

\* progress.lock() that does not wait for the holder.
lock_without_waiting(holder) == TRUE

\* progress.lock() returns when no thread holds the Mutex.
lock(holder) == holder = 0

\* let mut state = progress.lock(); state.files += 1;
\* state.bytes += file_entry.size; and callback(..) is entered.
CallbackBegins(t) ==
    /\ ThreadAt(t, "progress")
    /\ lock(progress_state.holder)
    /\ LET files == progress_state.files + 1
           bytes == progress_state.bytes + ScanEntry(ItemOf(t)).size
       IN /\ progress_state' = [files |-> files, bytes |-> bytes, holder |-> t]
          /\ cb_log' = Append(cb_log, [type |-> "begin", thread |-> t,
                                       path |-> ItemOf(t).path,
                                       files |-> files, bytes |-> bytes])
    /\ ThreadGoes(t, "callback")
    /\ UNCHANGED <<scan_in, collected, scan_result>>
    /\ UNCHANGED <<execVars, planVars, treeVars, diffVars, copyVars, trashVars, runVars, poolVars>>

\* callback(..) returns and the guard is dropped.
CallbackReturns(t) ==
    /\ ThreadAt(t, "callback")
    /\ cb_log' = Append(cb_log, [type |-> "end", thread |-> t,
                                 path |-> ItemOf(t).path,
                                 files |-> 0, bytes |-> 0])
    /\ progress_state' = [progress_state EXCEPT !.holder = 0]
    /\ ThreadGoes(t, "push")
    /\ UNCHANGED <<scan_in, collected, scan_result>>
    /\ UNCHANGED <<execVars, planVars, treeVars, diffVars, copyVars, trashVars, runVars, poolVars>>

\* scan.files.push(file_entry); Continue
Push(t) ==
    /\ ThreadAt(t, "push")
    /\ collected' = [collected EXCEPT !.files = Append(@, ScanEntry(ItemOf(t)))]
    /\ ThreadReturns(t)
    /\ UNCHANGED <<scan_in, progress_state, cb_log, scan_result>>
    /\ UNCHANGED <<execVars, planVars, treeVars, diffVars, copyVars, trashVars, runVars, poolVars>>

FileTree_new == [entries |-> <<>>, total_size |-> 0, total_files |-> 0, total_dirs |-> 0]

\* FileTree::insert on a tree held as a value.
FileTree_insert(tree, path, entry) ==
    LET replaced == IF path \in DOMAIN tree.entries THEN {tree.entries[path]} ELSE {}
        totals == TotalsAfterInsert(tree.total_size, tree.total_files, replaced, entry)
    IN [tree EXCEPT !.entries = (path :> entry) @@ tree.entries,
                    !.total_size = totals.total_size,
                    !.total_files = totals.total_files]

\* for entry in scan.files.drain(..) { tree.insert(entry.path.clone(), entry) }
RECURSIVE InsertAll(_, _)
InsertAll(tree, files) ==
    IF files = <<>> THEN tree
    ELSE InsertAll(FileTree_insert(tree, Head(files).path, Head(files)), Tail(files))

ScanOk(tree) == [tag |-> "Ok", tree |-> tree]

\* walker.run has returned: every thread is out of the closure and the
\* traversal is over or was quit.  The tail of scan_directory_parallel.
WalkReturns ==
    /\ scan_result = ScanRunning
    /\ \A t \in WalkThreads : ThreadAt(t, "idle")
    /\ walk.todo = {} \/ walk.quit
    /\ scan_result' =
          IF collected.fatal_error THEN ScanErr
          ELSE ScanOk(InsertAll([FileTree_new EXCEPT !.total_dirs = collected.total_dirs],
                                collected.files))
    /\ UNCHANGED <<scan_in, walk, collected, progress_state, cb_log>>
    /\ UNCHANGED <<execVars, planVars, treeVars, diffVars, copyVars, trashVars, runVars, poolVars>>

NextScan ==
    \/ \E t \in WalkThreads : Visit(t)
    \/ \E t \in WalkThreads : CheckFatal(t)
    \/ \E t \in WalkThreads : CountDir(t)
    \/ \E t \in WalkThreads : SetFatal(t)
    \/ \E t \in WalkThreads : CallbackBegins(t)
    \/ \E t \in WalkThreads : CallbackReturns(t)
    \/ \E t \in WalkThreads : Push(t)
    \/ WalkReturns

SpecScan == InitSpecScan /\ [][NextScan]_vars

\* The body of `for result in walker` of scan_directory for one item; st
\* holds the tree and the return value, if the loop has returned.
scan_directory_step(st, node, root_path, cfg) ==
    IF st.tag = "Err" THEN st
    ELSE IF node.kind = "walk_error" THEN st
    ELSE IF ~should_include_path(node) THEN st
    ELSE IF is_destination_internal_trash(root_path, cfg, node.path) THEN st
    ELSE IF node.kind = "dir"
         THEN [st EXCEPT !.tree.total_dirs = @ + 1]
    ELSE IF ~(node.kind = "file") /\ ~(node.kind = "symlink") THEN st
    ELSE IF ~node.metadata_ok THEN st
    ELSE IF node.kind = "symlink" /\ ~node.read_link_ok THEN st
    ELSE IF ~node.mtime_ok THEN ScanErr
    ELSE [st EXCEPT !.tree = FileTree_insert(@, node.path, ScanEntry(node))]

RECURSIVE scan_directory_loop(_, _, _, _)
scan_directory_loop(st, dir, root_path, cfg) ==
    IF dir = <<>> THEN st
    ELSE scan_directory_loop(scan_directory_step(st, Head(dir), root_path, cfg),
                             Tail(dir), root_path, cfg)

\* What scan_directory returns for the directory.
scan_directory_sequential(dir, root_path, cfg) ==
    scan_directory_loop(ScanOk(FileTree_new), dir, root_path, cfg)

(***************************************************************************)
(* Properties of the scanners (SpecScan)                                   *)
(***************************************************************************)
BeginPos == {p \in DOMAIN cb_log : cb_log[p].type = "begin"}
CallbackPaths == {cb_log[p].path : p \in BeginPos}
PushedPaths == {collected.files[i].path : i \in DOMAIN collected.files}

\* The paths of the items for which the closure builds a FileEntry.
AcceptedPaths ==
    {scan_in.dir[i].path :
        i \in {j \in DOMAIN scan_in.dir :
                  closure_branch(scan_in.dir[j]) \in {"progress", "push"}}}

\* The begin before position p, or 0.
PreviousBegin(p) ==
    IF \E q \in BeginPos : q < p
    THEN CHOOSE q \in BeginPos : q < p /\ \A r \in BeginPos : r < p => r <= q
    ELSE 0

\* C32: whatever the interleaving of the walker threads, a call of the
\* progress callback begins only after the call before it has returned; the
\* callback is called once for every file or symlink the scan accepts and
\* for nothing else; and each call sees files one higher than the call
\* before it (1 for the first) and bytes no lower.
C32_ProgressSerialized ==
    /\ \A p \in DOMAIN cb_log :
        IF cb_log[p].type = "begin"
        THEN p < Len(cb_log) =>
                /\ cb_log[p + 1].type = "end"
                /\ cb_log[p + 1].thread = cb_log[p].thread
        ELSE /\ p > 1
             /\ cb_log[p - 1].type = "begin"
             /\ cb_log[p - 1].thread = cb_log[p].thread
    /\ \A p, q \in BeginPos : cb_log[p].path = cb_log[q].path => p = q
    /\ PushedPaths \subseteq AcceptedPaths
    /\ scan_in.on_progress => PushedPaths \subseteq CallbackPaths
    /\ (scan_in.on_progress /\ scan_result.tag = "Ok") => CallbackPaths = AcceptedPaths
    /\ \A p \in BeginPos :
        LET q == PreviousBegin(p)
        IN /\ cb_log[p].files = (IF q = 0 THEN 0 ELSE cb_log[q].files) + 1
           /\ cb_log[p].bytes >= (IF q = 0 THEN 0 ELSE cb_log[q].bytes)

\* Two threads have each called the callback, the second for the item that
\* comes first in the traversal, and the scan has returned.
C32_Witness ==
    /\ scan_result.tag = "Ok" /\ Len(cb_log) = 4
    /\ cb_log[1].thread # cb_log[3].thread
    /\ cb_log[1].path = <<2>> /\ cb_log[3].path = <<1>>
    /\ cb_log[3].files = 2 /\ cb_log[3].bytes = 3

\* C33: for the same directory and the same config, whatever the number of
\* threads and the interleaving, scan_directory_parallel returns Ok exactly
\* when scan_directory does, and then the two FileTrees have the same set
\* of paths, the same total_files and the same total_size.
C33_ScannerParity ==
    scan_result.tag # "Running" =>
        LET sequential == scan_directory_sequential(scan_in.dir, scan_in.root, config)
        IN /\ scan_result.tag = sequential.tag
           /\ scan_result.tag = "Ok" =>
                /\ DOMAIN scan_result.tree.entries = DOMAIN sequential.tree.entries
                /\ scan_result.tree.total_files = sequential.tree.total_files
                /\ scan_result.tree.total_size = sequential.tree.total_size

\* A scan of the destination by two threads has returned a tree of two
\* entries, collected in the reverse of the traversal order, leaving out
\* what is under .kopy_trash.
C33_Witness ==
    /\ scan_result.tag = "Ok" /\ scan_in.root = "dest" /\ scan_in.threads = 2
    /\ Len(scan_in.dir) = 3
    /\ Len(collected.files) = 2
    /\ collected.files[1].path = <<2>> /\ collected.files[2].path = <<1>>
    /\ scan_result.tree.total_files = 2 /\ scan_result.tree.total_size = 3

(***************************************************************************)
(* ParallelExecutor (src/src/executor/pool.rs).  SpecPool is one pool: the *)
(* caller makes its enqueue calls and then close_and_wait; the dispatcher  *)
(* and the workers are tasks of the runtime.  A step of a task ends where  *)
(* it awaits a channel; the sections under the stats Mutex hold no await   *)
(* and are one step each.  SpecPoolFair adds that the caller and every     *)
(* task that can run does run.                                             *)
(***************************************************************************)
MaxPoolWorkers == 2
MaxQueueCapacity == 2
MaxJobs == 3

\* PoolStats::new
PoolStats_new(pool_workers) ==
    [workers |-> pool_workers, enqueued |-> 0, dispatched |-> 0, completed |-> 0,
     per_worker_completed |-> [w \in 0..(pool_workers - 1) |-> 0]]

\* ParallelExecutor::new: worker_count.max(1) and queue_capacity.max(1).
ParallelExecutor_new(asked_workers, queue_capacity, jobs) ==
    [workers |-> Max(asked_workers, 1), capacity |-> Max(queue_capacity, 1),
     jobs |-> jobs]

WorkerIds == 0..(pool_cfg.workers - 1)
PoolRunning == [tag |-> "Running"]
PoolOk(st) == [tag |-> "Ok", stats |-> st]

\* TransferJob { index, action: Skip }
TransferJob(index) == [index |-> index, action |-> Skip]
NoJob == [index |-> 0, action |-> Skip]

InitSpecPool ==
    /\ IdleExecPlanTree
    /\ IdleDiff
    /\ IdleCopy /\ IdleTrash /\ IdleRun /\ IdleScan
    /\ pool_cfg \in {ParallelExecutor_new(w, c, k) :
                        w \in 0..MaxPoolWorkers, c \in 0..MaxQueueCapacity,
                        k \in 0..MaxJobs}
    /\ chan = [upstream |-> <<>>, closed |-> FALSE,
               inbox |-> [w \in WorkerIds |-> <<>>], inbox_closed |-> FALSE]
    /\ pool_stats = PoolStats_new(pool_cfg.workers)
    /\ tasks = [caller |-> [pc |-> "ready", n |-> 0],
                dispatcher |-> [pc |-> "recv", job |-> NoJob, next_worker |-> 0],
                worker |-> [w \in WorkerIds |-> [pc |-> "recv", job |-> NoJob]],
                processed |-> <<>>]
    /\ pool_result = PoolRunning

\* enqueue: sender.send(job).await returns once the queue has room.
EnqueueSend ==
    /\ tasks.caller.pc = "ready" /\ tasks.caller.n < pool_cfg.jobs
    /\ ~chan.closed
    /\ Len(chan.upstream) < pool_cfg.capacity
    /\ chan' = [chan EXCEPT !.upstream = Append(@, TransferJob(tasks.caller.n))]
    /\ tasks' = [tasks EXCEPT !.caller.pc = "count"]
    /\ UNCHANGED <<pool_cfg, pool_stats, pool_result>>
    /\ UNCHANGED <<execVars, planVars, treeVars, diffVars, copyVars, trashVars, runVars, scanVars>>

\* enqueue: guard.enqueued += 1; Ok(())
EnqueueCount ==
    /\ tasks.caller.pc = "count"
    /\ pool_stats' = [pool_stats EXCEPT !.enqueued = @ + 1]
    /\ tasks' = [tasks EXCEPT !.caller.pc = "ready", !.caller.n = @ + 1]
    /\ UNCHANGED <<pool_cfg, chan, pool_result>>
    /\ UNCHANGED <<execVars, planVars, treeVars, diffVars, copyVars, trashVars, runVars, scanVars>>

\* close_and_wait: self.enqueue_tx.take() drops the only sender.
CloseAndWait ==
    /\ tasks.caller.pc = "ready" /\ tasks.caller.n = pool_cfg.jobs
    /\ chan' = [chan EXCEPT !.closed = TRUE]
    /\ tasks' = [tasks EXCEPT !.caller.pc = "await_dispatcher"]
    /\ UNCHANGED <<pool_cfg, pool_stats, pool_result>>
    /\ UNCHANGED <<execVars, planVars, treeVars, diffVars, copyVars, trashVars, runVars, scanVars>>

\* close_and_wait: handle.await of the dispatcher.
AwaitDispatcher ==
    /\ tasks.caller.pc = "await_dispatcher"
    /\ tasks.dispatcher.pc = "done"
    /\ tasks' = [tasks EXCEPT !.caller.pc = "await_workers"]
    /\ UNCHANGED <<pool_cfg, chan, pool_stats, pool_result>>
    /\ UNCHANGED <<execVars, planVars, treeVars, diffVars, copyVars, trashVars, runVars, scanVars>>

\* close_and_wait: handle.await of every worker, then Ok(stats.lock().clone()).
AwaitWorkers ==
    /\ tasks.caller.pc = "await_workers"
    /\ \A w \in WorkerIds : tasks.worker[w].pc = "done"
    /\ pool_result' = PoolOk(pool_stats)
    /\ tasks' = [tasks EXCEPT !.caller.pc = "returned"]
    /\ UNCHANGED <<pool_cfg, chan, pool_stats>>
    /\ UNCHANGED <<execVars, planVars, treeVars, diffVars, copyVars, trashVars, runVars, scanVars>>

\* The worker inboxes stay open when the dispatcher returns.
worker_txs_kept == FALSE

\* "worker_txs are dropped here, which closes worker inboxes."
worker_txs_dropped == TRUE

\* dispatcher_loop: enqueue_rx.recv().await gives a job, or None once the
\* queue is empty and its sender is dropped.
DispatcherRecv ==
    /\ tasks.dispatcher.pc = "recv"
    /\ IF chan.upstream # <<>>
       THEN /\ chan' = [chan EXCEPT !.upstream = Tail(@)]
            /\ tasks' = [tasks EXCEPT !.dispatcher.pc = "send",
                                      !.dispatcher.job = Head(chan.upstream)]
       ELSE /\ chan.closed
            /\ chan' = [chan EXCEPT !.inbox_closed = worker_txs_dropped]
            /\ tasks' = [tasks EXCEPT !.dispatcher.pc = "done"]
    /\ UNCHANGED <<pool_cfg, pool_stats, pool_result>>
    /\ UNCHANGED <<execVars, planVars, treeVars, diffVars, copyVars, trashVars, runVars, scanVars>>

\* dispatcher_loop: worker_txs[target].send(job).await returns once the
\* inbox has room, or fails when the worker is gone.
DispatcherSend ==
    /\ tasks.dispatcher.pc = "send"
    /\ LET target == tasks.dispatcher.next_worker % pool_cfg.workers
       IN IF tasks.worker[target].pc = "done"
          THEN /\ tasks' = [tasks EXCEPT !.dispatcher.pc = "recv"]
               /\ UNCHANGED chan
          ELSE /\ Len(chan.inbox[target]) < pool_cfg.capacity
               /\ chan' = [chan EXCEPT !.inbox[target] = Append(@, tasks.dispatcher.job)]
               /\ tasks' = [tasks EXCEPT !.dispatcher.pc = "count"]
    /\ UNCHANGED <<pool_cfg, pool_stats, pool_result>>
    /\ UNCHANGED <<execVars, planVars, treeVars, diffVars, copyVars, trashVars, runVars, scanVars>>

\* dispatcher_loop: guard.dispatched += 1; next_worker = (next_worker + 1) % worker_len
DispatcherCount ==
    /\ tasks.dispatcher.pc = "count"
    /\ pool_stats' = [pool_stats EXCEPT !.dispatched = @ + 1]
    /\ tasks' = [tasks EXCEPT !.dispatcher.pc = "recv",
                    !.dispatcher.next_worker = (@ + 1) % pool_cfg.workers]
    /\ UNCHANGED <<pool_cfg, chan, pool_result>>
    /\ UNCHANGED <<execVars, planVars, treeVars, diffVars, copyVars, trashVars, runVars, scanVars>>

\* worker_loop: worker_rx.recv().await gives a job, or None once the inbox
\* is empty and closed.
WorkerRecv(w) ==
    /\ tasks.worker[w].pc = "recv"
    /\ IF chan.inbox[w] # <<>>
       THEN /\ chan' = [chan EXCEPT !.inbox[w] = Tail(@)]
            /\ tasks' = [tasks EXCEPT !.worker[w] =
                            [pc |-> "count", job |-> Head(chan.inbox[w])]]
       ELSE /\ chan.inbox_closed
            /\ tasks' = [tasks EXCEPT !.worker[w].pc = "done"]
            /\ UNCHANGED chan
    /\ UNCHANGED <<pool_cfg, pool_stats, pool_result>>
    /\ UNCHANGED <<execVars, planVars, treeVars, diffVars, copyVars, trashVars, runVars, scanVars>>

\* worker_loop: guard.completed += 1; per_worker_completed[worker_id] += 1
WorkerCount(w) ==
    /\ tasks.worker[w].pc = "count"
    /\ pool_stats' = [pool_stats EXCEPT !.completed = @ + 1,
                                        !.per_worker_completed[w] = @ + 1]
    /\ tasks' = [tasks EXCEPT !.worker[w].pc = "recv",
                    !.processed = Append(@, [job |-> tasks.worker[w].job.index,
                                             worker |-> w])]
    /\ UNCHANGED <<pool_cfg, chan, pool_result>>
    /\ UNCHANGED <<execVars, planVars, treeVars, diffVars, copyVars, trashVars, runVars, scanVars>>

CallerStep ==
    EnqueueSend \/ EnqueueCount \/ CloseAndWait \/ AwaitDispatcher \/ AwaitWorkers
DispatcherStep == DispatcherRecv \/ DispatcherSend \/ DispatcherCount
WorkerStep(w) == WorkerRecv(w) \/ WorkerCount(w)

NextPool ==
    \/ EnqueueSend
    \/ EnqueueCount
    \/ CloseAndWait
    \/ AwaitDispatcher
    \/ AwaitWorkers
    \/ DispatcherRecv
    \/ DispatcherSend
    \/ DispatcherCount
    \/ \E w \in WorkerIds : WorkerRecv(w)
    \/ \E w \in WorkerIds : WorkerCount(w)

SpecPool == InitSpecPool /\ [][NextPool]_vars

\* The caller goes on, and the runtime runs every task that can run.
SpecPoolFair ==
    /\ SpecPool
    /\ WF_vars(CallerStep)
    /\ WF_vars(DispatcherStep)
    /\ \A w \in 0..(MaxPoolWorkers - 1) : WF_vars(w \in WorkerIds /\ WorkerStep(w))

(***************************************************************************)
(* Properties of the pool (SpecPoolFair)                                   *)
(***************************************************************************)
RECURSIVE SumTo(_, _)
SumTo(f, n) == IF n < 0 THEN 0 ELSE f[n] + SumTo(f, n - 1)

\* What close_and_wait returned: the three counters are the number of
\* enqueue calls, the workers' counters add up to it, and every job was
\* processed once, by one worker.
Conserved ==
    LET st == pool_result.stats
    IN /\ st.workers = pool_cfg.workers
       /\ st.enqueued = pool_cfg.jobs
       /\ st.dispatched = pool_cfg.jobs
       /\ st.completed = pool_cfg.jobs
       /\ SumTo(st.per_worker_completed, st.workers - 1) = st.completed
       /\ \A j \in 0..(pool_cfg.jobs - 1) :
            Cardinality({p \in DOMAIN tasks.processed : tasks.processed[p].job = j}) = 1
       /\ Len(tasks.processed) = pool_cfg.jobs
       /\ \A w \in WorkerIds :
            st.per_worker_completed[w] =
                Cardinality({p \in DOMAIN tasks.processed : tasks.processed[p].worker = w})

PoolReturned == pool_result.tag = "Ok"

\* C34: for every worker count and queue capacity (0 raised to 1) and every
\* number k of enqueue calls, close_and_wait, once called, returns; and the
\* stats it returns have enqueued = dispatched = completed = k, with the
\* workers' counters adding up to completed and every job processed once by
\* one worker.
C34_PoolConservation ==
    /\ [](PoolReturned => Conserved)
    /\ (tasks.caller.pc = "await_dispatcher") ~> PoolReturned

\* close_and_wait has returned for a pool asked for no worker and no
\* capacity, after three jobs.
C34_Witness ==
    /\ PoolReturned
    /\ pool_cfg.workers = 1 /\ pool_cfg.capacity = 1 /\ pool_cfg.jobs = 3
    /\ pool_result.stats.completed = 3

====
